---------------------------- MODULE Spec2Model ----------------------------
(***************************************************************************)
(* Model of the academic tools of pkg/tools/academic.go: the fetch-paper   *)
(* workflow (Unpaywall lookup, fetch with redirects, PDF detection, PDF    *)
(* link discovery in HTML, save) and the extract-citations workflow (text  *)
(* extraction from the PDF, reference-section and citation parsing,        *)
(* Crossref and Unpaywall enrichment, download, report).                   *)
(*                                                                         *)
(* Strings and byte slices are sequences of one-character strings, so that *)
(* prefix, suffix, substring and regular-expression matching are computed  *)
(* as the Go code computes them.  A byte is its character when it is      *)
(* printable ASCII (the grave accent apart), tab, line feed, form feed or  *)
(* carriage return, and the string "xXX" of its code in hexadecimal        *)
(* otherwise.  URLs range over                                             *)
(* these bytes except '[' and ']': the parts of net/url and net/http the   *)
(* code calls are modelled with their escaping and unescaping, for hosts   *)
(* that are no bracketed IP literals.                                      *)
(***************************************************************************)
EXTENDS Integers, Sequences, FiniteSets, TLC

(***************************************************************************)
(* Characters and strings                                                  *)
(***************************************************************************)
UpperChars == <<"A","B","C","D","E","F","G","H","I","J","K","L","M","N","O","P","Q","R","S","T","U","V","W","X","Y","Z">>
LowerChars == <<"a","b","c","d","e","f","g","h","i","j","k","l","m","n","o","p","q","r","s","t","u","v","w","x","y","z">>
DigitChars == <<"0","1","2","3","4","5","6","7","8","9">>

Range(f) == {f[i] : i \in DOMAIN f}
Letters == Range(UpperChars) \cup Range(LowerChars)
Digits == Range(DigitChars)

LowerChar(c) ==
  IF c \in Range(UpperChars)
    THEN LowerChars[CHOOSE i \in 1..26 : UpperChars[i] = c]
    ELSE c

UpperChar(c) ==
  IF c \in Range(LowerChars)
    THEN UpperChars[CHOOSE i \in 1..26 : LowerChars[i] = c]
    ELSE c

\* strings.ToLower, on ASCII
ToLower(s) == [i \in 1..Len(s) |-> LowerChar(s[i])]

\* strings.HasPrefix
HasPrefix(s, p) == Len(s) >= Len(p) /\ SubSeq(s, 1, Len(p)) = p

\* strings.HasSuffix
HasSuffix(s, p) == Len(s) >= Len(p) /\ SubSeq(s, Len(s) - Len(p) + 1, Len(s)) = p

\* the least and the greatest element of a non-empty set of integers
MinOf(S) == CHOOSE x \in S : \A y \in S : x <= y
MaxOf(S) == CHOOSE x \in S : \A y \in S : x >= y

\* the element of a set of one: {e(v) : v \in {x}} computes x once, whatever
\* the number of times e uses it
Only(S) == CHOOSE x \in S : TRUE

\* strings.Index, 1-based; 0 when sub does not occur
Index(s, sub) ==
  LET first(hits) == IF hits = {} THEN 0 ELSE MinOf(hits)
  IN first({i \in 1..(Len(s) - Len(sub) + 1) :
           /\ sub = <<>> \/ s[i] = sub[1]
           /\ SubSeq(s, i, i + Len(sub) - 1) = sub})

\* strings.LastIndex, 1-based; 0 when sub does not occur
LastIndex(s, sub) ==
  LET last(hits) == IF hits = {} THEN 0 ELSE MaxOf(hits)
  IN last({i \in 1..(Len(s) - Len(sub) + 1) :
           /\ sub = <<>> \/ s[i] = sub[1]
           /\ SubSeq(s, i, i + Len(sub) - 1) = sub})

\* strings.Contains
Contains(s, sub) == Index(s, sub) > 0

\* strings.Count of a one-character separator
Count(s, c) == Cardinality({i \in 1..Len(s) : s[i] = c})

\* strings.Cut: the text before the first sep, the text after it, and found
Cut(s, sep) ==
  LET at(i) ==
        IF i = 0
          THEN [before |-> s, after |-> <<>>, found |-> FALSE]
          ELSE [before |-> SubSeq(s, 1, i - 1),
                after |-> SubSeq(s, i + Len(sep), Len(s)),
                found |-> TRUE]
  IN at(Index(s, sep))

(***************************************************************************)
(* Regular expressions, with the leftmost-first semantics of Go's regexp:  *)
(* a backtracking match over the syntax tree that prefers the earlier      *)
(* alternative and the longer repetition.  A match is tried against the    *)
(* continuation k, the sequence of nodes still to be matched.              *)
(***************************************************************************)
Chr(cs) == [t |-> "chr", cs |-> cs, neg |-> FALSE]
NotChr(cs) == [t |-> "chr", cs |-> cs, neg |-> TRUE]
\* a literal; fold is the flag (?i), and then s is given in lower case
Lit(s) == [t |-> "lit", s |-> s, fold |-> FALSE]
LitI(s) == [t |-> "lit", s |-> ToLower(s), fold |-> TRUE]
\* c+ and c* for a character class c (greedy)
Rep1(c) == [t |-> "rep", c |-> c, min |-> 1]
Rep0(c) == [t |-> "rep", c |-> c, min |-> 0]
Cat(ns) == [t |-> "cat", ns |-> ns]
Plus(n) == [t |-> "plus", n |-> n]
Star(n) == [t |-> "star", n |-> n]
Opt(n) == [t |-> "opt", n |-> n]
Cap(n) == [t |-> "cap", n |-> n]
CapEnd == [t |-> "capend"]

\* c*? for a character class c (non-greedy)
Lazy0(c) == [t |-> "lazy", c |-> c]
\* a|b, the earlier alternative preferred
Alt(a, b) == [t |-> "alt", a |-> a, b |-> b]
\* (?m)^, ^ and \b
BeginLine == [t |-> "bol"]
BeginText == [t |-> "bot"]
WordBoundary == [t |-> "wb"]

\* whether position i of s holds a word character [0-9A-Za-z_]
IsWordAt(s, i) ==
  /\ i >= 1
  /\ i <= Len(s)
  /\ s[i] \in Letters \cup Digits \cup {"_"}

NoMatch == [ok |-> FALSE, b |-> 0, e |-> 0, cb |-> 0, ce |-> 0]

\* the first match, or the second when the first fails
OrElse(m, n) == IF m.ok THEN m ELSE n

\* the text a literal is compared with: lowered under the flag (?i)
LitText(got, fold) == IF fold THEN ToLower(got) ELSE got

\* whether character x is in class c
InClass(c, x) == (x \in c.cs) # c.neg

\* the length of the longest run of characters of class c in s from position p
RunLen(c, s, p) ==
  LET upTo(stops) == IF stops = {} THEN Len(s) + 1 - p ELSE MinOf(stops) - p
  IN upTo({j \in p..Len(s) : ~InClass(c, s[j])})

RECURSIVE ReMatch(_, _, _, _, _)
\* the match of continuation k at position p of s; cb, ce delimit group 1
ReMatch(k, s, p, cb, ce) ==
  IF Len(k) = 0
    THEN [ok |-> TRUE, b |-> 0, e |-> p, cb |-> cb, ce |-> ce]
    ELSE
      LET h == Head(k)
          r == Tail(k)
          \* the rest matched after the longest, or the shortest, of the runs
          longest(fits) ==
            IF fits = {} THEN NoMatch ELSE ReMatch(r, s, p + MaxOf(fits), cb, ce)
          shortest(fits) ==
            IF fits = {} THEN NoMatch ELSE ReMatch(r, s, p + MinOf(fits), cb, ce)
      IN CASE h.t = "chr" ->
                IF p <= Len(s) /\ InClass(h, s[p])
                  THEN ReMatch(r, s, p + 1, cb, ce)
                  ELSE NoMatch
           [] h.t = "lit" ->
                IF /\ p + Len(h.s) - 1 <= Len(s)
                   /\ LitText(SubSeq(s, p, p + Len(h.s) - 1), h.fold) = h.s
                  THEN ReMatch(r, s, p + Len(h.s), cb, ce)
                  ELSE NoMatch
           [] h.t = "rep" ->
                \* greedy: the longest run after which the rest matches
                longest({j \in h.min..RunLen(h.c, s, p) : ReMatch(r, s, p + j, cb, ce).ok})
           [] h.t = "cat" -> ReMatch(h.ns \o r, s, p, cb, ce)
           [] h.t = "plus" -> ReMatch(<<h.n, Star(h.n)>> \o r, s, p, cb, ce)
           [] h.t = "star" ->
                OrElse(ReMatch(<<h.n, h>> \o r, s, p, cb, ce), ReMatch(r, s, p, cb, ce))
           [] h.t = "opt" ->
                OrElse(ReMatch(<<h.n>> \o r, s, p, cb, ce), ReMatch(r, s, p, cb, ce))
           [] h.t = "lazy" ->
                \* non-greedy: the shortest run after which the rest matches
                shortest({j \in 0..RunLen(h.c, s, p) : ReMatch(r, s, p + j, cb, ce).ok})
           [] h.t = "alt" ->
                OrElse(ReMatch(<<h.a>> \o r, s, p, cb, ce),
                       ReMatch(<<h.b>> \o r, s, p, cb, ce))
           [] h.t = "bol" ->
                IF p = 1 \/ s[p - 1] = "\n" THEN ReMatch(r, s, p, cb, ce) ELSE NoMatch
           [] h.t = "bot" ->
                IF p = 1 THEN ReMatch(r, s, p, cb, ce) ELSE NoMatch
           [] h.t = "wb" ->
                IF IsWordAt(s, p - 1) # IsWordAt(s, p)
                  THEN ReMatch(r, s, p, cb, ce)
                  ELSE NoMatch
           [] h.t = "cap" -> ReMatch(<<h.n, CapEnd>> \o r, s, p, p, ce)
           [] h.t = "capend" -> ReMatch(r, s, p, cb, p)

\* the leftmost match of re in s starting at position i or later
ReFindFrom(re, s, i) ==
  LET leftmost(starts) ==
        IF starts = {} THEN NoMatch
        ELSE [ReMatch(<<re>>, s, MinOf(starts), 0, 0) EXCEPT !.b = MinOf(starts)]
  IN leftmost({j \in i..(Len(s) + 1) : ReMatch(<<re>>, s, j, 0, 0).ok})

RECURSIVE ReFindAllFrom(_, _, _)
\* the successive non-overlapping matches of re in s from position i on, for
\* a pattern that matches no empty string
ReFindAllFrom(re, s, i) ==
  LET andRest(m) == IF ~m.ok THEN <<>> ELSE <<m>> \o ReFindAllFrom(re, s, m.e)
  IN andRest(ReFindFrom(re, s, i))

\* Regexp.FindAllStringIndex and FindAllStringSubmatch: the matches, each
\* with its bounds b, e (e exclusive) and those of group 1, cb, ce
FindAll(re, s) == ReFindAllFrom(re, s, 1)

\* Regexp.FindStringSubmatch: ok, and group 1 of the leftmost match
FindStringSubmatch(re, s) ==
  LET submatch(m) == [ok |-> m.ok, g1 |-> IF m.ok THEN SubSeq(s, m.cb, m.ce - 1) ELSE <<>>]
  IN submatch(ReFindFrom(re, s, 1))

RECURSIVE Concat(_)
\* the concatenation of a sequence of sequences, the two halves one after
\* the other
Concat(ss) ==
  IF ss = <<>> THEN <<>>
  ELSE IF Len(ss) = 1 THEN ss[1]
  ELSE LET half == Len(ss) \div 2
       IN Concat(SubSeq(ss, 1, half)) \o Concat(SubSeq(ss, half + 1, Len(ss)))

(***************************************************************************)
(* net/url, as far as the code uses it: url.Parse, URL.String and          *)
(* URL.ResolveReference.                                                   *)
(***************************************************************************)
\* the bytes 0x20 to 0x7e, in their order; the grave accent, which no string
\* of the module can hold, goes by its name
Printable ==
  <<" ","!","\"","#","$","%","&","'","(",")","*","+",",","-",".","/",
    "0","1","2","3","4","5","6","7","8","9",":",";","<","=",">","?","@",
    "A","B","C","D","E","F","G","H","I","J","K","L","M","N","O","P","Q","R","S","T","U","V","W","X","Y","Z",
    "[","\\","]","^","_","x60",
    "a","b","c","d","e","f","g","h","i","j","k","l","m","n","o","p","q","r","s","t","u","v","w","x","y","z",
    "{","|","}","~">>

\* the digits "%XX" is written with (upperhex)
HexChars == <<"0","1","2","3","4","5","6","7","8","9","A","B","C","D","E","F">>

\* the byte of a code: its character, and for a byte that has none here
\* its name "xXX"
ByteChar(code) ==
  CASE code >= 32 /\ code <= 126 -> Printable[code - 31]
    [] code = 9 -> "\t"
    [] code = 10 -> "\n"
    [] code = 12 -> "\f"
    [] code = 13 -> "\r"
    [] OTHER -> "x" \o HexChars[(code \div 16) + 1] \o HexChars[(code % 16) + 1]

\* the code of a byte
CharCode(c) == CHOOSE code \in 0..255 : ByteChar(code) = c

\* bytes below 0x20 and 0x7f, which url.Parse rejects (stringContainsCTLByte)
CtlChars ==
  {"\t", "\n", "\f", "\r",
   "x00", "x01", "x02", "x03", "x04", "x05", "x06", "x07", "x08", "x0B", "x0E", "x0F", "x10", "x11",
   "x12", "x13", "x14", "x15", "x16", "x17", "x18", "x19", "x1A", "x1B", "x1C", "x1D", "x1E", "x1F", "x7F"}

\* the bytes below 0x80
ASCIIChars == Range(Printable) \cup CtlChars

\* url.ishex and url.unhex
ishex(c) == UpperChar(c) \in Range(HexChars)
unhex(c) == CHOOSE v \in 0..15 : HexChars[v + 1] = UpperChar(c)

\* url.shouldEscape, for the modes encodePath, encodeUserPassword,
\* encodeHost, encodeZone and encodeFragment
shouldEscape(c, mode) ==
  IF c \in Letters \cup Digits THEN FALSE
  ELSE IF mode \in {"host", "zone"}
          /\ c \in {"!","$","&","'","(",")","*","+",",",";","=",":","[","]","<",">","\""}
    THEN FALSE
  ELSE IF c \in {"-","_",".","~"} THEN FALSE
  ELSE IF c \in {"$","&","+",",","/",":",";","=","?","@"}
          /\ mode \in {"path", "userPassword", "fragment"}
    THEN CASE mode = "path" -> c = "?"
           [] mode = "userPassword" -> c \in {"@","/","?",":"}
           [] mode = "fragment" -> FALSE
  ELSE IF mode = "fragment" /\ c \in {"!","(",")","*"} THEN FALSE
  ELSE TRUE

\* url.escape, for the modes above: "%XX" for each byte to escape
escape(s, mode) ==
  Only({Concat([i \in 1..Len(t) |->
                  IF shouldEscape(t[i], mode)
                    THEN <<"%", HexChars[(CharCode(t[i]) \div 16) + 1],
                           HexChars[(CharCode(t[i]) % 16) + 1]>>
                    ELSE <<t[i]>>])
        : t \in {s}})

RECURSIVE unescapeFrom(_, _, _, _)
\* url.unescape from position i on, out the bytes decoded so far: ok is
\* false for a "%" that two hex digits do not follow, and in a host for an
\* escaped ASCII byte other than "%25" and for a byte the host cannot hold
unescapeFrom(s, i, mode, out) ==
  IF i > Len(s) THEN [ok |-> TRUE, s |-> out]
  ELSE IF s[i] = "%"
    THEN IF i + 2 > Len(s) \/ ~ishex(s[i + 1]) \/ ~ishex(s[i + 2])
           THEN [ok |-> FALSE, s |-> <<>>]
         ELSE IF mode = "host" /\ unhex(s[i + 1]) < 8
                 /\ SubSeq(s, i, i + 2) # <<"%", "2", "5">>
           THEN [ok |-> FALSE, s |-> <<>>]
         ELSE unescapeFrom(s, i + 3, mode,
                           Append(out, ByteChar(16 * unhex(s[i + 1]) + unhex(s[i + 2]))))
  ELSE IF mode = "host" /\ s[i] \in ASCIIChars /\ shouldEscape(s[i], "host")
    THEN [ok |-> FALSE, s |-> <<>>]
  ELSE unescapeFrom(s, i + 1, mode, Append(out, s[i]))

\* url.unescape
unescape(s, mode) == Only({unescapeFrom(t, 1, mode, <<>>) : t \in {s}})

\* url.validEncoded
validEncoded(s, mode) ==
  \E t \in {s} :
    \A i \in 1..Len(t) :
      \/ t[i] \in {"!","$","&","'","(",")","*","+",",",";","=",":","@","[","]","%"}
      \/ ~shouldEscape(t[i], mode)

\* a *url.Userinfo, set false for nil
NoUser == [set |-> FALSE, username |-> <<>>, password |-> <<>>, passwordSet |-> FALSE]

EmptyURL ==
  [ok |-> TRUE, scheme |-> <<>>, opaque |-> <<>>, user |-> NoUser, host |-> <<>>,
   omitHost |-> FALSE, path |-> <<>>, rawPath |-> <<>>, forceQuery |-> FALSE,
   rawQuery |-> <<>>, fragment |-> <<>>, rawFragment |-> <<>>]

BadURL == [EmptyURL EXCEPT !.ok = FALSE]

\* URL.setPath: Path is the decoded text, RawPath the text given when it is
\* not the default encoding of Path
setPath(u, p) ==
  Only({IF ~path.ok THEN BadURL
        ELSE [u EXCEPT !.path = path.s,
                       !.rawPath = IF escape(path.s, "path") = raw THEN <<>> ELSE raw]
        : path \in {unescape(p, "path")}, raw \in {p}})

\* URL.setFragment
setFragment(u, f) ==
  Only({IF ~frag.ok THEN BadURL
        ELSE [u EXCEPT !.fragment = frag.s,
                       !.rawFragment = IF escape(frag.s, "fragment") = raw THEN <<>>
                                                                             ELSE raw]
        : frag \in {unescape(f, "fragment")}, raw \in {f}})

\* URL.EscapedPath
EscapedPath(u) ==
  IF u.rawPath # <<>> /\ validEncoded(u.rawPath, "path")
     /\ unescape(u.rawPath, "path") = [ok |-> TRUE, s |-> u.path]
    THEN u.rawPath
  ELSE IF u.path = <<"*">> THEN <<"*">>
  ELSE escape(u.path, "path")

\* URL.EscapedFragment
EscapedFragment(u) ==
  IF u.rawFragment # <<>> /\ validEncoded(u.rawFragment, "fragment")
     /\ unescape(u.rawFragment, "fragment") = [ok |-> TRUE, s |-> u.fragment]
    THEN u.rawFragment
  ELSE escape(u.fragment, "fragment")

RECURSIVE getSchemeAt(_, _)
\* url.getScheme: the scheme before the first ':' and the rest, or no scheme
getSchemeAt(raw, i) ==
  IF i > Len(raw)
    THEN [ok |-> TRUE, scheme |-> <<>>, rest |-> raw]
    ELSE LET c == raw[i]
         IN CASE c \in Letters -> getSchemeAt(raw, i + 1)
              [] c \in Digits \cup {"+", "-", "."} ->
                   IF i = 1
                     THEN [ok |-> TRUE, scheme |-> <<>>, rest |-> raw]
                     ELSE getSchemeAt(raw, i + 1)
              [] c = ":" ->
                   IF i = 1
                     THEN [ok |-> FALSE, scheme |-> <<>>, rest |-> <<>>]
                     ELSE [ok |-> TRUE, scheme |-> SubSeq(raw, 1, i - 1),
                           rest |-> SubSeq(raw, i + 1, Len(raw))]
              [] OTHER -> [ok |-> TRUE, scheme |-> <<>>, rest |-> raw]

\* url.validOptionalPort, applied to the host's text from its last ':' on
validHostPort(host) ==
  LET portAfter(i) == i = 0 \/ \A j \in (i + 1)..Len(host) : host[j] \in Digits
  IN portAfter(LastIndex(host, <<":">>))

\* url.parseAuthority: the user information before the last '@' and the
\* host after it (url.parseHost, for a host that is no IP literal); un holds
\* the host, the user name and the password, unescaped
parseAuthority(authority) ==
  LET bad == [ok |-> FALSE, user |-> NoUser, host |-> <<>>]
      at == LastIndex(authority, <<"@">>)
      hostText == SubSeq(authority, at + 1, Len(authority))
      userinfo == SubSeq(authority, 1, at - 1)
      validUserinfo ==
        \A i \in 1..Len(userinfo) :
          userinfo[i] \in Letters \cup Digits
            \cup {"-",".","_",":","~","!","$","&","'","(",")","*","+",",",";","=","%","@"}
  IN Only({IF ~validHostPort(hostText) \/ ~un[1].ok THEN bad
           ELSE IF at = 0 THEN [ok |-> TRUE, user |-> NoUser, host |-> un[1].s]
           ELSE IF ~validUserinfo \/ ~un[2].ok \/ ~un[3].ok THEN bad
           ELSE [ok |-> TRUE, host |-> un[1].s,
                 user |-> [set |-> TRUE, username |-> un[2].s, password |-> un[3].s,
                           passwordSet |-> Contains(userinfo, <<":">>)]]
           : un \in {[i \in 1..3 |->
                        unescape(<<hostText, Cut(userinfo, <<":">>).before,
                                   Cut(userinfo, <<":">>).after>>[i],
                                 <<"host", "userPassword", "userPassword">>[i])]}})

\* url.parse(rawURL, false) on the text before the fragment
parseNoFragment(u) ==
  LET none == [ok |-> FALSE, star |-> FALSE, isOpaque |-> FALSE, scheme |-> <<>>,
               forceQuery |-> FALSE, rawQuery |-> <<>>, opaque |-> <<>>,
               netPath |-> FALSE, authority |-> <<>>, path |-> <<>>, omitHost |-> FALSE]
      \* the text after the scheme and before the query: an opaque text, or
      \* an authority after "//" and a path
      cutRest(scheme, rest, base) ==
        LET netPath == HasPrefix(rest, <<"/", "/">>)
                       /\ (scheme # <<>> \/ ~HasPrefix(rest, <<"/", "/", "/">>))
            auth == Cut(SubSeq(rest, 3, Len(rest)), <<"/">>)
        IN IF ~HasPrefix(rest, <<"/">>) /\ scheme # <<>>
             THEN [base EXCEPT !.isOpaque = TRUE, !.opaque = rest]
           ELSE IF ~HasPrefix(rest, <<"/">>) /\ Contains(Cut(rest, <<"/">>).before, <<":">>)
             THEN none
           ELSE IF netPath
             THEN [base EXCEPT !.netPath = TRUE, !.authority = auth.before,
                               !.path = IF auth.found THEN <<"/">> \o auth.after
                                                      ELSE <<>>]
           ELSE [base EXCEPT !.omitHost = (scheme # <<>> /\ HasPrefix(rest, <<"/">>)),
                             !.path = rest]
      \* the query: a lone final '?' forces an empty one
      cutQuery(scheme, rest, force, q) ==
        cutRest(scheme,
                IF force THEN SubSeq(rest, 1, Len(rest) - 1) ELSE q.before,
                [none EXCEPT !.ok = TRUE, !.scheme = scheme, !.forceQuery = force,
                             !.rawQuery = IF force THEN <<>> ELSE q.after])
      cutScheme(gs) ==
        IF ~gs.ok
          THEN none
          ELSE cutQuery(ToLower(gs.scheme), gs.rest,
                        HasSuffix(gs.rest, <<"?">>) /\ Count(gs.rest, "?") = 1,
                        Cut(gs.rest, <<"?">>))
      \* the parts of the text t
      parts(t) ==
        IF \E i \in 1..Len(t) : t[i] \in CtlChars THEN none
        ELSE IF t = <<"*">> THEN [none EXCEPT !.ok = TRUE, !.star = TRUE]
        ELSE cutScheme(getSchemeAt(t, 1))
      url(p) == [EmptyURL EXCEPT !.scheme = p.scheme, !.forceQuery = p.forceQuery,
                                 !.rawQuery = p.rawQuery, !.opaque = p.opaque,
                                 !.omitHost = p.omitHost]
  IN Only({Only({IF ~p.ok \/ ~a.ok THEN BadURL
                 ELSE IF p.star THEN [EmptyURL EXCEPT !.path = <<"*">>]
                 ELSE IF p.isOpaque THEN url(p)
                 ELSE setPath([url(p) EXCEPT !.user = a.user, !.host = a.host], p.path)
                 : a \in {parseAuthority(p.authority)}})
           : p \in {parts(u)}})

\* url.Parse: the text after the first '#' is the fragment
urlParse(raw) ==
  Only({Only({IF u.ok /\ c.after # <<>> THEN setFragment(u, c.after) ELSE u
              : u \in {parseNoFragment(c.before)}})
        : c \in {Cut(raw, <<"#">>)}})

\* URL.String
urlString(url) ==
  LET \* esc holds the user name, the password and the host of u, escaped
      write(u, esc, path, frag) ==
        LET head == IF u.scheme # <<>> THEN u.scheme \o <<":">> ELSE <<>>
            slashes == IF u.host # <<>> \/ u.path # <<>> \/ u.user.set
                         THEN <<"/", "/">> ELSE <<>>
            userinfo == IF u.user.set
                          THEN esc[1] \o (IF u.user.passwordSet THEN <<":">> \o esc[2]
                                                                ELSE <<>>)
                               \o <<"@">>
                          ELSE <<>>
            authority == IF (u.scheme # <<>> \/ u.host # <<>> \/ u.user.set)
                            /\ ~(u.omitHost /\ u.host = <<>> /\ ~u.user.set)
                           THEN slashes \o userinfo \o esc[3]
                           ELSE <<>>
            sep == IF path # <<>> /\ path[1] # "/" /\ u.host # <<>>
                     THEN <<"/">> ELSE <<>>
            dot == IF Len(head \o authority \o sep) = 0
                      /\ Contains(Cut(path, <<"/">>).before, <<":">>)
                     THEN <<".", "/">> ELSE <<>>
            body == IF u.opaque # <<>> THEN head \o u.opaque
                                       ELSE head \o authority \o sep \o dot \o path
            query == IF u.forceQuery \/ u.rawQuery # <<>> THEN <<"?">> \o u.rawQuery
                                                          ELSE <<>>
        IN body \o query \o (IF u.fragment # <<>> THEN <<"#">> \o frag ELSE <<>>)
  IN Only({Only({write(u, esc, path, frag)
                 : esc \in {[i \in 1..3 |->
                               escape(<<u.user.username, u.user.password, u.host>>[i],
                                      <<"userPassword", "userPassword", "host">>[i])]},
                   path \in {EscapedPath(u)}, frag \in {EscapedFragment(u)}})
           : u \in {url}})

RECURSIVE resolveElems(_, _, _, _)
\* the loop of url.resolvePath: dst is the text written after the leading '/',
\* last the element read last
resolveElems(remaining, dst, first, last) ==
  LET stepOf(elem, idx) ==
        CASE elem = <<".">> -> [dst |-> dst, first |-> FALSE]
          [] elem = <<".", ".">> ->
               IF idx = 0 THEN [dst |-> <<>>, first |-> TRUE]
                          ELSE [dst |-> SubSeq(dst, 1, idx - 1), first |-> first]
          [] OTHER -> [dst |-> dst \o (IF first THEN <<>> ELSE <<"/">>) \o elem,
                       first |-> FALSE]
      next(c, step) ==
        IF c.found
          THEN resolveElems(c.after, step.dst, step.first, c.before)
          ELSE [dst |-> step.dst, last |-> c.before]
      walk(c) == next(c, stepOf(c.before, LastIndex(dst, <<"/">>)))
  IN walk(Cut(remaining, <<"/">>))

\* url.resolvePath
resolvePath(base, ref) ==
  LET strip(r) == IF Len(r) > 1 /\ r[2] = "/" THEN Tail(r) ELSE r
      close(w) ==
        strip(<<"/">> \o w.dst
                \o (IF w.last = <<".">> \/ w.last = <<".", ".">> THEN <<"/">> ELSE <<>>))
      resolve(full) ==
        IF full = <<>> THEN <<>> ELSE close(resolveElems(full, <<>>, TRUE, <<>>))
  IN resolve(IF ref = <<>> THEN base
             ELSE IF ref[1] # "/" THEN SubSeq(base, 1, LastIndex(base, <<"/">>)) \o ref
             ELSE ref)

\* URL.ResolveReference
ResolveReference(base, reference) ==
  LET url(u, ref) ==
        [ref EXCEPT !.scheme = IF ref.scheme = <<>> THEN u.scheme ELSE ref.scheme]
      \* the query and the fragment of u, kept under an empty reference
      url2(u, ref) ==
        IF ref.path = <<>> /\ ~ref.forceQuery /\ ref.rawQuery = <<>>
          THEN [url(u, ref) EXCEPT
                  !.rawQuery = u.rawQuery,
                  !.fragment = IF ref.fragment = <<>> THEN u.fragment ELSE ref.fragment,
                  !.rawFragment = IF ref.fragment = <<>> THEN u.rawFragment
                                                         ELSE ref.rawFragment]
          ELSE url(u, ref)
      \* the "absoluteURI" and "net_path" cases
      absolute(ref) == ref.scheme # <<>> \/ ref.host # <<>> \/ ref.user.set
      \* the URL whose path is set
      target(u, ref) ==
        IF absolute(ref) THEN url(u, ref)
                         ELSE [url2(u, ref) EXCEPT !.host = u.host, !.user = u.user]
  IN Only({IF ~absolute(ref) /\ ref.opaque # <<>>
             THEN [url(u, ref) EXCEPT !.user = NoUser, !.host = <<>>, !.path = <<>>]
           ELSE IF ~absolute(ref) /\ ref.path = <<>> /\ u.opaque # <<>>
             THEN [url2(u, ref) EXCEPT !.opaque = u.opaque, !.user = NoUser,
                                       !.host = <<>>, !.path = <<>>]
           \* url.setPath(resolvePath(...)), its error ignored
           ELSE Only({Only({IF w.ok THEN w ELSE target(u, ref)
                            : w \in {setPath(target(u, ref),
                                             resolvePath(IF absolute(ref) THEN ep[2]
                                                                          ELSE ep[1],
                                                         IF absolute(ref) THEN <<>>
                                                                          ELSE ep[2]))}})
                      : ep \in {[i \in 1..2 |-> EscapedPath(<<u, ref>>[i])]}})
           : u \in {base}, ref \in {reference}})

(***************************************************************************)
(* PDF detection and PDF link discovery                                    *)
(***************************************************************************)
ApplicationPDF == <<"a","p","p","l","i","c","a","t","i","o","n","/","p","d","f">>
TextHTML == <<"t","e","x","t","/","h","t","m","l">>
DotPDF == <<".","p","d","f">>
PDFMagic == <<"%","P","D","F">>
HTTPPrefix == <<"h","t","t","p">>

\* the detector without the magic-bytes signal
detectPDF_NoMagic(body, contentType, fetchedURL) ==
  \/ Contains(contentType, ApplicationPDF)
  \/ HasSuffix(ToLower(fetchedURL), DotPDF)

\* the detector with a case-sensitive URL suffix
detectPDF_CaseSensitive(body, contentType, fetchedURL) ==
  \/ Contains(contentType, ApplicationPDF)
  \/ HasSuffix(fetchedURL, DotPDF)
  \/ (Len(body) >= 4 /\ SubSeq(body, 1, 4) = PDFMagic)

\* detectPDF: content type, URL suffix or magic bytes
detectPDF(body, contentType, fetchedURL) ==
  \/ Contains(contentType, ApplicationPDF)
  \/ HasSuffix(ToLower(fetchedURL), DotPDF)
  \/ (Len(body) >= 4 /\ SubSeq(body, 1, 4) = PDFMagic)

Quote == Chr({"\"", "'"})
NotQuote == NotChr({"\"", "'"})
NotGt == NotChr({">"})

\* the pattern list of findPDFURLInHTML, in its order
PDFPatterns ==
  << \* (?i)<meta[^>]+name=["']citation_pdf_url["'][^>]+content=["']([^"']+)["']
     Cat(<<LitI(<<"<","m","e","t","a">>), Rep1(NotGt), LitI(<<"n","a","m","e","=">>), Quote, LitI(<<"c","i","t","a","t","i","o","n","_","p","d","f","_","u","r","l">>),
           Quote, Rep1(NotGt), LitI(<<"c","o","n","t","e","n","t","=">>), Quote, Cap(Rep1(NotQuote)), Quote>>),
     \* (?i)<meta[^>]+content=["']([^"']+)["'][^>]+name=["']citation_pdf_url["']
     Cat(<<LitI(<<"<","m","e","t","a">>), Rep1(NotGt), LitI(<<"c","o","n","t","e","n","t","=">>), Quote, Cap(Rep1(NotQuote)),
           Quote, Rep1(NotGt), LitI(<<"n","a","m","e","=">>), Quote, LitI(<<"c","i","t","a","t","i","o","n","_","p","d","f","_","u","r","l">>), Quote>>),
     \* (?i)data-pdf-url=["']([^"']+)["']
     Cat(<<LitI(<<"d","a","t","a","-","p","d","f","-","u","r","l","=">>), Quote, Cap(Rep1(NotQuote)), Quote>>),
     \* (?i)href=["']([^"']+\.pdf(?:[?#][^"']*)?)["']
     Cat(<<LitI(<<"h","r","e","f","=">>), Quote,
           Cap(Cat(<<Rep1(NotQuote), LitI(<<".","p","d","f">>),
                     Opt(Cat(<<Chr({"?", "#"}), Rep0(NotQuote)>>))>>)),
           Quote>>),
     \* (?i)href=["']([^"']+)["'][^>]+type=["']application/pdf["']
     Cat(<<LitI(<<"h","r","e","f","=">>), Quote, Cap(Rep1(NotQuote)), Quote, Rep1(NotGt),
           LitI(<<"t","y","p","e","=">>), Quote, LitI(<<"a","p","p","l","i","c","a","t","i","o","n","/","p","d","f">>), Quote>>),
     \* (?i)type=["']application/pdf["'][^>]+href=["']([^"']+)["']
     Cat(<<LitI(<<"t","y","p","e","=">>), Quote, LitI(<<"a","p","p","l","i","c","a","t","i","o","n","/","p","d","f">>), Quote, Rep1(NotGt),
           LitI(<<"h","r","e","f","=">>), Quote, Cap(Rep1(NotQuote)), Quote>>) >>

\* the body of the pattern loop: the matched URL, resolved against baseURL
resolveMatch(pdfURL, baseURL) ==
  Only({IF ~HasPrefix(pdfURL, HTTPPrefix) /\ baseURL # <<>> /\ p[1].ok /\ p[2].ok
          THEN urlString(ResolveReference(p[1], p[2]))
          ELSE pdfURL
        : p \in {[i \in 1..2 |-> urlParse(<<baseURL, pdfURL>>[i])]}})

RECURSIVE findPDFFrom(_, _, _)
findPDFFrom(i, htmlContent, baseURL) ==
  LET orNext(m) == IF m.ok THEN resolveMatch(m.g1, baseURL)
                           ELSE findPDFFrom(i + 1, htmlContent, baseURL)
  IN IF i > Len(PDFPatterns)
       THEN <<>>
       ELSE orNext(FindStringSubmatch(PDFPatterns[i], htmlContent))

\* the search in which the match standing first in the page decides
findPDFURLInHTML_ByPosition(htmlContent, baseURL) ==
  LET earliest(ms, hits) ==
        CHOOSE i \in hits :
          \A j \in hits : ms[i].b < ms[j].b \/ (ms[i].b = ms[j].b /\ i <= j)
      group(m) == SubSeq(htmlContent, m.cb, m.ce - 1)
      decide(ms, hits) ==
        IF hits = {} THEN <<>> ELSE resolveMatch(group(ms[earliest(ms, hits)]), baseURL)
      among(ms) == decide(ms, {i \in 1..Len(PDFPatterns) : ms[i].ok})
  IN among([i \in 1..Len(PDFPatterns) |-> ReFindFrom(PDFPatterns[i], htmlContent, 1)])

\* findPDFURLInHTML: the first pattern that matches decides
findPDFURLInHTML(htmlContent, baseURL) == findPDFFrom(1, htmlContent, baseURL)


(***************************************************************************)
(* The network, as the code sees it.  A response of the environment to one *)
(* GET is a redirect chain of `hops` URLs followed by a terminal answer:   *)
(* a transport failure ("neterr"), or a status with body and content type. *)
(***************************************************************************)
\* the redirect limit of the CheckRedirect callback
RedirectLimit == 5

NoResp == [hops |-> <<>>, kind |-> "none", status |-> 0, body |-> <<>>, ct |-> <<>>]

FetchFail(rawURL, why) ==
  [err |-> TRUE, why |-> why, body |-> <<>>, finalURL |-> rawURL, contentType |-> <<>>]

\* removeEmptyPort of net/http: a host that ends in ":" loses it
removeEmptyPort(host) ==
  IF LastIndex(host, <<":">>) > LastIndex(host, <<"]">>) /\ HasSuffix(host, <<":">>)
    THEN SubSeq(host, 1, Len(host) - 1)
    ELSE host

\* the URL of the request http.NewRequestWithContext makes: the parsed URL,
\* its host without an empty port
newRequestURL(rawURL) ==
  LET stripped(u) == IF u.ok THEN [u EXCEPT !.host = removeEmptyPort(u.host)] ELSE u
  IN stripped(urlParse(rawURL))

\* whether http.Client sends a request for the URL u: it needs an http(s)
\* URL with a host
sendableURL(u) ==
  u.ok /\ u.scheme \in {<<"h","t","t","p">>, <<"h","t","t","p","s">>} /\ u.host # <<>>

\* whether http.Client.Do sends the request made for rawURL
Sendable(rawURL) == sendableURL(newRequestURL(rawURL))

RECURSIVE followRedirects(_, _, _)
\* the redirects http.Client.Do follows from the request for u, hops the
\* Location headers of the answers that redirect: an answer without Location
\* is returned as it is ("status"), a Location that does not parse or cannot
\* be requested ends Do with an error ("failed"), and CheckRedirect is asked
\* before each redirect with the requests made so far (via) and refuses once
\* len(via) >= 5 ("stopped"); otherwise the last request is answered
followRedirects(u, hops, i) ==
  IF i > Len(hops) THEN [end |-> "answered", url |-> u]
  ELSE IF hops[i] = <<>> THEN [end |-> "status", url |-> u]
  ELSE Only({IF ~loc.ok THEN [end |-> "failed", url |-> u]
             ELSE IF i >= RedirectLimit THEN [end |-> "stopped", url |-> u]
             ELSE Only({IF ~sendableURL(next)
                          THEN [end |-> "failed", url |-> u]
                          ELSE followRedirects(next, hops, i + 1)
                        : next \in {ResolveReference(u, loc)}})
             : loc \in {urlParse(hops[i])}})

\* fetchURLWithRedirects, given the environment's response r to the request;
\* an answer of kind "unread" is one whose status and headers arrive and
\* whose body cannot be read to its end.  u is the URL of the request of
\* http.NewRequestWithContext and last the end of the redirects.
fetchURLWithRedirects(rawURL, r) ==
  Only({IF ~u.ok THEN FetchFail(rawURL, "failed to create request")
        ELSE IF ~sendableURL(u) THEN FetchFail(rawURL, "request failed")
        ELSE Only({IF last.end = "failed" THEN FetchFail(rawURL, "request failed")
                   ELSE IF last.end = "stopped"
                     THEN FetchFail(rawURL, "request failed: stopped after 5 redirects")
                   ELSE IF last.end = "status" THEN FetchFail(rawURL, "HTTP status")
                   ELSE IF r.kind \notin {"http", "unread"}
                     THEN FetchFail(rawURL, "request failed")
                   ELSE IF r.status # 200 THEN FetchFail(rawURL, "HTTP status")
                   ELSE IF r.kind = "unread"
                     THEN FetchFail(rawURL, "failed to read response")
                   ELSE [err |-> FALSE, why |-> "", body |-> r.body,
                         finalURL |-> urlString(last.url), contentType |-> r.ct]
                   : last \in {followRedirects(u, r.hops, 1)}})
        : u \in {newRequestURL(rawURL)}})

DOIResolver == <<"h","t","t","p","s",":","/","/","d","o","i",".","o","r","g","/">>

\* unpaywallLookup, given the environment's answer oa to the API request:
\* kind "neterr", or "http" with a status, whether the body parses, and the
\* decoded fields is_oa, best_oa_location.url_for_pdf and .url
unpaywallLookup(doi, email, oa) ==
  IF oa.kind # "http" THEN [err |-> TRUE, pdfURL |-> <<>>]
  ELSE IF oa.status # 200 THEN [err |-> TRUE, pdfURL |-> <<>>]
  ELSE IF ~oa.parses THEN [err |-> TRUE, pdfURL |-> <<>>]
  ELSE IF ~oa.isOA THEN [err |-> FALSE, pdfURL |-> <<>>]
  ELSE IF oa.urlPDF # <<>> THEN [err |-> FALSE, pdfURL |-> oa.urlPDF]
  ELSE [err |-> FALSE, pdfURL |-> oa.url]

RECURSIVE stripTags(_, _)
\* WebFetchTool.extractText: the text outside the tags
stripTags(s, inTag) ==
  IF s = <<>> THEN <<>>
  ELSE IF inTag THEN stripTags(Tail(s), Head(s) # ">")
  ELSE IF Head(s) = "<" THEN stripTags(Tail(s), TRUE)
  ELSE <<Head(s)>> \o stripTags(Tail(s), FALSE)

extractText(html) == stripTags(html, FALSE)

\* two decimal digits
TwoDigits(n) == <<DigitChars[((n \div 10) % 10) + 1], DigitChars[(n % 10) + 1]>>

\* time.Time.UTC().Format(time.RFC3339) of the instant t seconds after
\* 1970-01-01T00:00:00Z, for t below one hour
FormatRFC3339(t) ==
  <<"1","9","7","0","-","0","1","-","0","1","T","0","0",":">> \o TwoDigits((t \div 60) % 60) \o <<":">> \o TwoDigits(t % 60) \o <<"Z">>

\* the provenance header of a text artifact
TextHeader(finalURL, t) ==
  <<"S","o","u","r","c","e",":"," ">> \o finalURL \o <<"\n","F","e","t","c","h","e","d",":"," ">> \o FormatRFC3339(t) \o <<"\n","\n">>


(***************************************************************************)
(* Text helpers.                                                           *)
(***************************************************************************)
\* the white space of the class \s of regexp
SpaceChars == {" ", "\t", "\n", "\r", "\f"}

\* the white space of unicode.IsSpace in UTF-8: the six ASCII bytes, U+0085,
\* U+00A0, U+1680, U+2000 to U+200A, U+2028, U+2029, U+202F, U+205F, U+3000
SpaceRunes ==
  {<<c>> : c \in SpaceChars \cup {"x0B"}}
  \cup {<<"xC2","x85">>, <<"xC2","xA0">>, <<"xE1","x9A","x80">>}
  \cup {<<"xE2","x80",c>> : c \in {"x80","x81","x82","x83","x84","x85","x86","x87","x88","x89","x8A",
                                   "xA8","xA9","xAF"}}
  \cup {<<"xE2","x81","x9F">>, <<"xE3","x80","x80">>}

\* the number of bytes of the white-space rune that begins at s[i], and of
\* the one that ends at s[j] and begins at s[lo] or after it; 0 without one
spaceAt(s, i) ==
  IF i <= Len(s) /\ <<s[i]>> \in SpaceRunes THEN 1
  ELSE IF i + 1 <= Len(s) /\ SubSeq(s, i, i + 1) \in SpaceRunes THEN 2
  ELSE IF i + 2 <= Len(s) /\ SubSeq(s, i, i + 2) \in SpaceRunes THEN 3
  ELSE 0
spaceBefore(s, lo, j) ==
  IF j >= lo /\ <<s[j]>> \in SpaceRunes THEN 1
  ELSE IF j - 1 >= lo /\ SubSeq(s, j - 1, j) \in SpaceRunes THEN 2
  ELSE IF j - 2 >= lo /\ SubSeq(s, j - 2, j) \in SpaceRunes THEN 3
  ELSE 0

RECURSIVE TrimLeftFunc(_, _)
\* strings.TrimLeftFunc(s, unicode.IsSpace): where the rest begins
TrimLeftFunc(s, i) ==
  IF spaceAt(s, i) = 0 THEN i ELSE TrimLeftFunc(s, i + spaceAt(s, i))

RECURSIVE TrimRightFunc(_, _, _)
\* strings.TrimRightFunc(s, unicode.IsSpace): where the rest ends
TrimRightFunc(s, lo, j) ==
  IF spaceBefore(s, lo, j) = 0 THEN j ELSE TrimRightFunc(s, lo, j - spaceBefore(s, lo, j))

\* strings.TrimSpace
TrimSpace(s) ==
  LET between(lo, hi) == IF hi < lo THEN <<>> ELSE SubSeq(s, lo, hi)
      from(lo) == between(lo, TrimRightFunc(s, lo, Len(s)))
  IN from(TrimLeftFunc(s, 1))

\* strings.TrimRight
TrimRight(s, cutset) ==
  LET upTo(keep) == IF keep = {} THEN <<>> ELSE SubSeq(s, 1, MaxOf(keep))
  IN upTo({i \in 1..Len(s) : s[i] \notin cutset})

RECURSIVE ReplaceAll(_, _, _)
\* strings.ReplaceAll, for a non-empty old
ReplaceAll(s, old, new) ==
  LET from(i) ==
        IF i = 0 THEN s
        ELSE SubSeq(s, 1, i - 1) \o new
               \o ReplaceAll(SubSeq(s, i + Len(old), Len(s)), old, new)
  IN from(Index(s, old))

RECURSIVE Join(_, _)
\* strings.Join
Join(parts, sep) ==
  IF parts = <<>> THEN <<>>
  ELSE IF Len(parts) = 1 THEN parts[1]
  ELSE parts[1] \o sep \o Join(Tail(parts), sep)

\* the value of a decimal digit
DigitValue(c) == CHOOSE d \in 0..9 : DigitChars[d + 1] = c

RECURSIVE Atoi(_)
\* strconv.Atoi of a run of digits, within the range of int
Atoi(ds) ==
  IF ds = <<>> THEN 0
  ELSE Atoi(SubSeq(ds, 1, Len(ds) - 1)) * 10 + DigitValue(ds[Len(ds)])

RECURSIVE Itoa(_)
\* fmt.Sprintf("%d", n): a minus sign, then the digits of the magnitude
Itoa(n) ==
  IF n < 0 THEN <<"-">> \o Itoa(0 - n)
  ELSE IF n < 10 THEN <<DigitChars[n + 1]>>
  ELSE Itoa(n \div 10) \o <<DigitChars[(n % 10) + 1]>>

\* group 1 of a match m in s
Group1(s, m) == SubSeq(s, m.cb, m.ce - 1)

\* the whole text of a match m in s
Group0(s, m) == SubSeq(s, m.b, m.e - 1)

\* FindAllStringSubmatch(s, -1), of each match group 1
Groups(re, s) ==
  LET groupsOf(ms) == [i \in 1..Len(ms) |-> Group1(s, ms[i])]
  IN groupsOf(FindAll(re, s))

WS == Chr(SpaceChars)
Digit == Chr(Digits)
AnyChar == NotChr({})
AnyButNewline == NotChr({"\n"})

(***************************************************************************)
(* PDF text extraction                                                     *)
(***************************************************************************)
\* the least length of BT/ET text that extractTextFromPDF accepts
MinPDFTextLen == 200

NotParenBackslash == NotChr({")", "\\"})

\* \(([^)\\]*(?:\\.[^)\\]*)*)\)
strInArrayRe ==
  Cat(<<Lit(<<"(">>),
        Cap(Cat(<<Rep0(NotParenBackslash),
                  Star(Cat(<<Lit(<<"\\">>), AnyButNewline, Rep0(NotParenBackslash)>>))>>)),
        Lit(<<")">>)>>)

\* (?s)BT\s+(.*?)\s+ET
btRe == Cat(<<Lit(<<"B", "T">>), Rep1(WS), Cap(Lazy0(AnyChar)), Rep1(WS), Lit(<<"E", "T">>)>>)

\* \(([^)\\]*(?:\\.[^)\\]*)*)\)\s*Tj
tjRe == Cat(<<strInArrayRe, Rep0(WS), Lit(<<"T", "j">>)>>)

\* \[([^\]]+)\]\s*TJ
tjArrayRe ==
  Cat(<<Lit(<<"[">>), Cap(Rep1(NotChr({"]"}))), Lit(<<"]">>), Rep0(WS), Lit(<<"T", "J">>)>>)

\* pdfUnescapeString: the six replacements, one after the other
pdfUnescapeString(s) ==
  LET s1 == ReplaceAll(s, <<"\\", "n">>, <<"\n">>)
      s2 == ReplaceAll(s1, <<"\\", "r">>, <<"\r">>)
      s3 == ReplaceAll(s2, <<"\\", "t">>, <<"\t">>)
      s4 == ReplaceAll(s3, <<"\\", "\\">>, <<"\\">>)
      s5 == ReplaceAll(s4, <<"\\", "(">>, <<"(">>)
  IN ReplaceAll(s5, <<"\\", ")">>, <<")">>)

\* c >= 32 && c < 127
IsPrintable(c) == c \in Range(Printable)

\* isReadablePDFText: the runes in 32..126, which are the bytes in 32..126,
\* are more than half of the bytes
isReadablePDFText(s) ==
  /\ Len(s) # 0
  /\ Cardinality({i \in 1..Len(s) : IsPrintable(s[i])}) > Len(s) \div 2

\* extractPrintableASCII: the printable bytes and \n \r \t, a newline in the
\* place of each run of other bytes that follows a kept byte; runs of three
\* or more newlines collapsed to two; trimmed
extractPrintableASCII(data) ==
  LET kept(i) == IsPrintable(data[i]) \/ data[i] \in {"\n", "\r", "\t"}
      third(scanned, i) ==
        /\ i > 2
        /\ scanned[i] = "\n"
        /\ scanned[i - 1] = "\n"
        /\ scanned[i - 2] = "\n"
      collapse(scanned) ==
        Concat([i \in 1..Len(scanned) |->
                  IF third(scanned, i) THEN <<>> ELSE <<scanned[i]>>])
  IN TrimSpace(collapse(Concat([i \in 1..Len(data) |->
                                  IF kept(i) THEN <<data[i]>>
                                  ELSE IF i > 1 /\ kept(i - 1) THEN <<"\n">>
                                  ELSE <<>>])))

\* the readable literals of the Tj operators of a BT/ET block
tjTexts(block) ==
  LET readable(gs) ==
        SelectSeq([i \in 1..Len(gs) |-> pdfUnescapeString(gs[i])], isReadablePDFText)
  IN readable(Groups(tjRe, block))

\* the readable texts of the TJ arrays of a BT/ET block
tjArrayTexts(block) ==
  LET joined(strs) == Concat([j \in 1..Len(strs) |-> pdfUnescapeString(strs[j])])
      textOf(arr) == joined(Groups(strInArrayRe, arr))
      readable(gs) == SelectSeq([i \in 1..Len(gs) |-> textOf(gs[i])], isReadablePDFText)
  IN readable(Groups(tjArrayRe, block))

\* extractTextFromPDF with the length of the result taken before trimming
extractTextFromPDF_Untrimmed(data) ==
  LET orScan(result) ==
        IF Len(result) < MinPDFTextLen
          THEN extractPrintableASCII(data)
          ELSE result
      textsOf(blocks) ==
        Concat([i \in 1..Len(blocks) |-> tjTexts(blocks[i]) \o tjArrayTexts(blocks[i])])
  IN orScan(Join(textsOf(Groups(btRe, data)), <<" ">>))

\* extractTextFromPDF
extractTextFromPDF(data) ==
  LET orScan(result) ==
        IF Len(TrimSpace(result)) < MinPDFTextLen
          THEN extractPrintableASCII(data)
          ELSE result
      textsOf(blocks) ==
        Concat([i \in 1..Len(blocks) |-> tjTexts(blocks[i]) \o tjArrayTexts(blocks[i])])
  IN orScan(Join(textsOf(Groups(btRe, data)), <<" ">>))

(***************************************************************************)
(* Citation extraction                                                     *)
(***************************************************************************)
\* a CitationRef with the zero value of every field
NoRef ==
  [Index |-> 0, RawText |-> <<>>, DOI |-> <<>>, Title |-> <<>>, Authors |-> <<>>,
   Year |-> <<>>, IsOA |-> FALSE, PDFURL |-> <<>>, PageURL |-> <<>>]

\* the header lines of extractCitationSection, in its order
SectionHeaders ==
  << <<"R","e","f","e","r","e","n","c","e","s">>, <<"R","E","F","E","R","E","N","C","E","S">>,
     <<"B","i","b","l","i","o","g","r","a","p","h","y">>, <<"B","I","B","L","I","O","G","R","A","P","H","Y">>,
     <<"W","o","r","k","s"," ","C","i","t","e","d">>, <<"W","O","R","K","S"," ","C","I","T","E","D">>,
     <<"L","i","t","e","r","a","t","u","r","e"," ","C","i","t","e","d">>, <<"L","I","T","E","R","A","T","U","R","E"," ","C","I","T","E","D">> >>

\* the three forms in which a header h is looked for
HeaderSeps(h) ==
  << <<"\n">> \o h \o <<"\n">>, <<"\n">> \o h \o <<"\r", "\n">>, <<"\n">> \o h \o <<":">> >>

RECURSIVE sectionFrom(_, _, _)
\* the loops of extractCitationSection from header hi and form si on
sectionFrom(text, hi, si) ==
  LET from(idx) == IF idx > 0 THEN SubSeq(text, idx + 1, Len(text))
                              ELSE sectionFrom(text, hi, si + 1)
  IN IF hi > Len(SectionHeaders) THEN <<>>
     ELSE IF si > 3 THEN sectionFrom(text, hi + 1, 1)
     ELSE from(Index(text, HeaderSeps(SectionHeaders[hi])[si]))

\* the section from the first header line of the document on, whichever
\* header of the list it is
extractCitationSection_FirstInText(text) ==
  LET starts == {i \in 1..Len(text) :
                   \E hi \in 1..Len(SectionHeaders), si \in 1..3 :
                     HasPrefix(SubSeq(text, i, Len(text)), HeaderSeps(SectionHeaders[hi])[si])}
  IN IF starts = {} THEN <<>> ELSE SubSeq(text, MinOf(starts) + 1, Len(text))

\* the section from the header that comes last in the list
extractCitationSection_LastOfList(text) ==
  LET found == {hi \in 1..Len(SectionHeaders) :
                  \E si \in 1..3 : Index(text, HeaderSeps(SectionHeaders[hi])[si]) > 0}
      from(hi) ==
        LET si == MinOf({k \in 1..3 : Index(text, HeaderSeps(SectionHeaders[hi])[k]) > 0})
        IN SubSeq(text, Index(text, HeaderSeps(SectionHeaders[hi])[si]) + 1, Len(text))
  IN IF found = {} THEN <<>> ELSE from(MaxOf(found))

\* extractCitationSection: the text from the header on, "" without a header
extractCitationSection(text) == sectionFrom(text, 1, 1)

\* the characters that end a DOI: [^\s\])\>"',]
DOIStops == SpaceChars \cup {"]", ")", ">", "\"", "'", ","}

\* (?i)(?:doi:|https?://doi\.org/)?(10\.\d{4,}/[^\s\])\>"',]+)
DOIRe ==
  Cat(<<Opt(Alt(LitI(<<"d","o","i",":">>),
                Cat(<<LitI(<<"h","t","t","p">>), Opt(LitI(<<"s">>)), LitI(<<":","/","/","d","o","i",".","o","r","g","/">>)>>))),
        Cap(Cat(<<Lit(<<"1","0",".">>), Digit, Digit, Digit, Digit, Rep0(Digit), Lit(<<"/">>),
                  Rep1(NotChr(DOIStops))>>))>>)

\* the cutset of the TrimRight applied to a matched DOI
DOITrim == {".", ",", ";", ")"}

\* the DOI as matched, its trailing punctuation kept
extractDOIFromText_NoTrim(text) ==
  LET matched(m) == IF m.ok THEN m.g1 ELSE <<>>
  IN matched(FindStringSubmatch(DOIRe, text))

\* extractDOIFromText
extractDOIFromText(text) ==
  LET trimmed(m) == IF m.ok THEN TrimRight(m.g1, DOITrim) ELSE <<>>
  IN trimmed(FindStringSubmatch(DOIRe, text))

\* \b(19[0-9]{2}|20[0-2][0-9])\b
YearRe ==
  Cat(<<WordBoundary,
        Alt(Cat(<<Lit(<<"1","9">>), Digit, Digit>>),
            Cat(<<Lit(<<"2","0">>), Chr({"0", "1", "2"}), Digit>>)),
        WordBoundary>>)

\* extractYearFromText
extractYearFromText(text) ==
  LET year(m) == IF m.ok THEN Group0(text, m) ELSE <<>>
  IN year(ReFindFrom(YearRe, text, 1))

\* (?m)^\s*\[(\d+)\]
re1 == Cat(<<BeginLine, Rep0(WS), Lit(<<"[">>), Cap(Rep1(Digit)), Lit(<<"]">>)>>)

\* (?m)^\s*(\d+)\.\s
re2 == Cat(<<BeginLine, Rep0(WS), Cap(Rep1(Digit)), Lit(<<".">>), WS>>)

\* ^\[(\d+)\] and ^(\d+)\.
reIdx(bracketStyle) ==
  IF bracketStyle
    THEN Cat(<<BeginText, Lit(<<"[">>), Cap(Rep1(Digit)), Lit(<<"]">>)>>)
    ELSE Cat(<<BeginText, Cap(Rep1(Digit)), Lit(<<".">>)>>)

\* the record parseSplitRefs makes of one block
splitRef(block, bracketStyle) ==
  LET record(m, doi) ==
        [NoRef EXCEPT !.RawText = block,
                      !.Index = IF m.ok THEN Atoi(m.g1) ELSE 0,
                      !.DOI = doi,
                      !.Year = extractYearFromText(block),
                      !.PageURL = IF doi # <<>> THEN DOIResolver \o doi ELSE <<>>]
  IN record(FindStringSubmatch(reIdx(bracketStyle), block), extractDOIFromText(block))

\* the records of every marker, the cap ignored
parseSplitRefs_NoCap(refSection, locs, max, bracketStyle) ==
  LET end(i) == IF i < Len(locs) THEN locs[i + 1].b - 1 ELSE Len(refSection)
  IN [i \in 1..Len(locs) |->
        splitRef(TrimSpace(SubSeq(refSection, locs[i].b, end(i))), bracketStyle)]

\* the records whose text runs to the end of the section
parseSplitRefs_ToEnd(refSection, locs, max, bracketStyle) ==
  LET n == IF max < 0 THEN 0 ELSE IF Len(locs) < max THEN Len(locs) ELSE max
  IN [i \in 1..n |->
        splitRef(TrimSpace(SubSeq(refSection, locs[i].b, Len(refSection))), bracketStyle)]

\* parseSplitRefs: a record per marker, from the marker to the next one
parseSplitRefs(refSection, locs, max, bracketStyle) ==
  LET n == IF max < 0 THEN 0 ELSE IF Len(locs) < max THEN Len(locs) ELSE max
      end(i) == IF i < Len(locs) THEN locs[i + 1].b - 1 ELSE Len(refSection)
  IN [i \in 1..n |->
        splitRef(TrimSpace(SubSeq(refSection, locs[i].b, end(i))), bracketStyle)]

RECURSIVE doiRefsFrom(_, _, _, _, _)
\* the loop of extractDOIRefs from match i on, refs being the records so far
doiRefsFrom(refSection, ms, i, refs, max) ==
  LET with(doi) ==
        IF doi # <<>> /\ \A k \in 1..Len(refs) : refs[k].DOI # doi
          THEN doiRefsFrom(refSection, ms, i + 1,
                           Append(refs, [NoRef EXCEPT !.DOI = doi,
                                                      !.RawText = doi,
                                                      !.PageURL = DOIResolver \o doi]),
                           max)
          ELSE doiRefsFrom(refSection, ms, i + 1, refs, max)
  IN IF i > Len(ms) \/ Len(refs) >= max THEN refs
     ELSE with(TrimRight(Group1(refSection, ms[i]), DOITrim))

\* a record per DOI found, the DOIs already seen included
extractDOIRefs_NoDedup(refSection, max) ==
  LET records(ms) ==
        [i \in 1..MinOf({Len(ms), max}) |->
           [NoRef EXCEPT !.DOI = TrimRight(Group1(refSection, ms[i]), DOITrim),
                         !.RawText = TrimRight(Group1(refSection, ms[i]), DOITrim),
                         !.PageURL = DOIResolver \o TrimRight(Group1(refSection, ms[i]), DOITrim)]]
  IN records(FindAll(DOIRe, refSection))

\* extractDOIRefs: a record per distinct DOI of the text
extractDOIRefs(refSection, max) ==
  doiRefsFrom(refSection, FindAll(DOIRe, refSection), 1, <<>>, max)

\* the cascade that tries the N. style before the [N] style
parseCitationRefs_DotFirst(refSection, maxCitations) ==
  LET bracketed(locs) ==
        IF Len(locs) >= 2
          THEN parseSplitRefs(refSection, locs, maxCitations, TRUE)
          ELSE extractDOIRefs(refSection, maxCitations)
      numbered(locs2) ==
        IF Len(locs2) >= 2
          THEN parseSplitRefs(refSection, locs2, maxCitations, FALSE)
          ELSE bracketed(FindAll(re1, refSection))
  IN IF refSection = <<>> THEN <<>> ELSE numbered(FindAll(re2, refSection))

\* parseCitationRefs: [N] markers, else N. markers, else the DOIs
parseCitationRefs(refSection, maxCitations) ==
  LET numbered(locs2) ==
        IF Len(locs2) >= 2
          THEN parseSplitRefs(refSection, locs2, maxCitations, FALSE)
          ELSE extractDOIRefs(refSection, maxCitations)
      bracketed(locs) ==
        IF Len(locs) >= 2
          THEN parseSplitRefs(refSection, locs, maxCitations, TRUE)
          ELSE numbered(FindAll(re2, refSection))
  IN IF refSection = <<>> THEN <<>> ELSE bracketed(FindAll(re1, refSection))

\* an answer of the Crossref API: kind "neterr", or "http" with a status,
\* whether the body parses, and the decoded message.title, message.author
\* and message.published.date-parts
CRAnswer(kind, status, parses, title, author, dateParts) ==
  [kind |-> kind, status |-> status, parses |-> parses, title |-> title,
   author |-> author, dateParts |-> dateParts]
NoCR == CRAnswer("none", 0, FALSE, <<>>, <<>>, <<>>)

\* the fields lookupCitationViaCrossref fills from a decoded answer
crossrefFilled(ref, cr) ==
  LET names == [i \in 1..Len(cr.author) |->
                  TrimSpace(cr.author[i].given \o <<" ">> \o cr.author[i].family)]
      isName(x) == x # <<>>
  IN [ref EXCEPT
        !.Title = IF Len(cr.title) > 0 THEN cr.title[1] ELSE ref.Title,
        !.Authors = IF Len(cr.author) > 0
                      THEN Join(SelectSeq(names, isName), <<",", " ">>)
                      ELSE ref.Authors,
        !.Year = IF Len(cr.dateParts) > 0 /\ Len(cr.dateParts[1]) > 0
                   THEN Itoa(cr.dateParts[1][1])
                   ELSE ref.Year]

\* the lookup that decodes the answer whatever its status
lookupCitationViaCrossref_AnyStatus(ref, email, cr) ==
  IF ref.DOI = <<>> THEN ref
  ELSE IF cr.kind # "http" \/ ~cr.parses THEN ref
  ELSE crossrefFilled(ref, cr)

\* lookupCitationViaCrossref, given the answer cr to its request
lookupCitationViaCrossref(ref, email, cr) ==
  IF ref.DOI = <<>> THEN ref
  ELSE IF cr.kind # "http" \/ cr.status # 200 \/ ~cr.parses THEN ref
  ELSE crossrefFilled(ref, cr)

\* the record marked open access on every answer that is no error
enrichCitationOA_MarksWithoutURL(ref, email, oa) ==
  LET marked(look) ==
        IF look.err THEN ref
        ELSE [ref EXCEPT !.IsOA = TRUE, !.PDFURL = look.pdfURL]
  IN IF ref.DOI = <<>> \/ email = <<>> THEN ref
     ELSE marked(unpaywallLookup(ref.DOI, email, oa))

\* enrichCitationOA, given the answer oa to the Unpaywall request
enrichCitationOA(ref, email, oa) ==
  LET marked(look) ==
        IF look.err \/ look.pdfURL = <<>> THEN ref
        ELSE [ref EXCEPT !.IsOA = TRUE, !.PDFURL = look.pdfURL]
  IN IF ref.DOI = <<>> \/ email = <<>> THEN ref
     ELSE marked(unpaywallLookup(ref.DOI, email, oa))

\* the download that writes whatever the fetch returned
downloadCitationPaper_NoPDFCheck(ref, savePath, r, wok) ==
  LET saved(f) ==
        IF f.err
          THEN [writes |-> FALSE, data |-> <<>>, ok |-> FALSE]
          ELSE [writes |-> TRUE, data |-> f.body, ok |-> wok]
  IN IF ref.PDFURL = <<>> THEN [writes |-> FALSE, data |-> <<>>, ok |-> FALSE]
     ELSE saved(fetchURLWithRedirects(ref.PDFURL, r))

\* downloadCitationPaper, given the answer r to the fetch and whether the
\* write succeeds: whether a write is made, its data, and the value returned
downloadCitationPaper(ref, savePath, r, wok) ==
  LET saved(f) ==
        IF f.err \/ ~detectPDF(f.body, f.contentType, ref.PDFURL)
          THEN [writes |-> FALSE, data |-> <<>>, ok |-> FALSE]
          ELSE [writes |-> TRUE, data |-> f.body, ok |-> wok]
  IN IF ref.PDFURL = <<>> THEN [writes |-> FALSE, data |-> <<>>, ok |-> FALSE]
     ELSE saved(fetchURLWithRedirects(ref.PDFURL, r))

RECURSIVE cleanElems(_, _, _)
\* the elements of a cleaned path: no empty and no "." element, ".." applied
cleanElems(rest, out, rooted) ==
  LET add(e) ==
        IF e = <<>> \/ e = <<".">> THEN out
        ELSE IF e = <<".", ".">>
          THEN IF Len(out) > 0 /\ out[Len(out)] # <<".", ".">>
                 THEN SubSeq(out, 1, Len(out) - 1)
                 ELSE IF rooted THEN out ELSE Append(out, e)
        ELSE Append(out, e)
      walk(c) == cleanElems(c.after, add(c.before), rooted)
  IN IF rest = <<>> THEN out ELSE walk(Cut(rest, <<"/">>))

\* filepath.Clean
pathClean(path) ==
  LET cleaned(rooted, body) ==
        IF rooted THEN <<"/">> \o body
        ELSE IF body = <<>> THEN <<".">>
        ELSE body
  IN cleaned(HasPrefix(path, <<"/">>),
             Join(cleanElems(path, <<>>, HasPrefix(path, <<"/">>)), <<"/">>))

\* filepath.Join of a directory and a file name
pathJoin(dir, name) ==
  IF dir = <<>> THEN pathClean(name) ELSE pathClean(dir \o <<"/">> \o name)

\* time.Now().UnixNano() at clock reading t, in decimal
UnixNano(t) == IF t = 0 THEN <<"0">> ELSE Itoa(t) \o <<"0","0","0","0","0","0","0","0","0">>

\* citationSavePath
citationSavePath(dir, ref, t) ==
  LET replaced == [i \in 1..Len(ref.DOI) |->
                     IF ref.DOI[i] \in {"/", ":", " "} THEN "_" ELSE ref.DOI[i]]
      name == IF ref.DOI # <<>> THEN replaced
              ELSE IF ref.Index > 0 THEN <<"c","i","t","a","t","i","o","n","_">> \o Itoa(ref.Index)
              ELSE <<"c","i","t","a","t","i","o","n","_">> \o UnixNano(t)
  IN pathJoin(dir, name \o <<".","p","d","f">>)

\* the length of raw text that CitationRef.Format shows
RawLimit == 200

\* CitationRef.Format
CitationFormat(c) ==
  (IF c.Index > 0 THEN <<"[">> \o Itoa(c.Index) \o <<"]"," ">> ELSE <<>>)
  \o (IF c.Title # <<>> THEN <<"T","i","t","l","e",":"," ">> \o c.Title \o <<"\n">> ELSE <<>>)
  \o (IF c.Authors # <<>> THEN <<"A","u","t","h","o","r","s",":"," ">> \o c.Authors \o <<"\n">> ELSE <<>>)
  \o (IF c.Year # <<>> THEN <<"Y","e","a","r",":"," ">> \o c.Year \o <<"\n">> ELSE <<>>)
  \o (IF c.DOI # <<>> THEN <<"D","O","I",":"," ">> \o c.DOI \o <<"\n">> ELSE <<>>)
  \o (IF c.PageURL # <<>> THEN <<"U","R","L",":"," ">> \o c.PageURL \o <<"\n">> ELSE <<>>)
  \o (IF c.PDFURL # <<>> THEN <<"P","D","F",":"," ">> \o c.PDFURL \o <<"\n">> ELSE <<>>)
  \o <<"O","p","e","n"," ","A","c","c","e","s","s",":"," ">> \o (IF c.IsOA THEN <<"t","r","u","e">> ELSE <<"f","a","l","s","e">>) \o <<"\n">>
  \o (IF c.RawText # <<>>
        THEN <<"R","a","w",":"," ">>
             \o (IF Len(c.RawText) > RawLimit
                   THEN SubSeq(c.RawText, 1, RawLimit) \o <<".",".",".">>
                   ELSE c.RawText)
             \o <<"\n">>
        ELSE <<>>)

(***************************************************************************)
(* State                                                                   *)
(***************************************************************************)
VARIABLES
  emailForPolite, \* the tool's configured contact email ("" when unset)
  now,            \* the clock as time.Now() read it, in seconds (0: not read)
  files,          \* the file system: path -> content
  call,           \* the tool invocation made, with its arguments
  result,         \* the ToolResult returned
  netLog,         \* the requests sent to the network, in order
  fsLog,          \* the file-system operations made, in order
  fetched,        \* the URLs handed to fetchURLWithRedirects, in order
  run,            \* the local variables of Execute, as set so far
  pc,             \* where Execute is: idle, waiting for an answer, returned
  fnIn,           \* the arguments of a helper called on its own
  fnOut           \* the value that helper returned

vars == <<emailForPolite, now, files, call, result, netLog, fsLog, fetched, run, pc, fnIn, fnOut>>

(***************************************************************************)
(* Bounds and the inputs drawn                                             *)
(***************************************************************************)
\* the readings of the clock range over 0..MaxClock
MaxClock == 1
\* the redirect chains the environment answers with have up to MaxHops hops
MaxHops == 6

NoCall == [tool |-> "none"]
NoResult == [isError |-> FALSE, msg |-> "", fileType |-> "", bytes |-> 0]
NoFn == [fn |-> "none"]

Emails == {<<>>, <<"u", "@", "h">>}
SaveArgs == {<<>>, <<"o",".","p","d","f">>}
URLArgs == {<<>>, <<"h","t","t","p",":","/","/","h",".","o","r","g",":","/","a">>, <<"h","t","t","p",":","/","/","h",".","o","r","g","/","a">>, <<"h","t","t","p","s",":","/","/","h",".","o","r","g","/","a",".","p","d","f">>, <<"H","T","T","P",":","/","/","h",".","o","r","g","/","a">>,
            <<"f","t","p",":","/","/","h",".","o","r","g","/","a",".","p","d","f">>, <<"h",".","o","r","g","/","a">>, <<"f","i","l","e",":","/","/","/","e","t","c","/","a",".","p","d","f">>,
            <<"h","t","t","p","s",":","/","/","h",".","o","r","g","/","a","#","b","#","c">>}
DOIArgs == {<<>>, <<"1","0",".","1","2","3","4","/","t">>}

\* answers of the Unpaywall API
OAnswer(kind, status, parses, isOA, urlPDF, url) ==
  [kind |-> kind, status |-> status, parses |-> parses, isOA |-> isOA,
   urlPDF |-> urlPDF, url |-> url]
NoOA == OAnswer("none", 0, FALSE, FALSE, <<>>, <<>>)
OAResponses ==
  { OAnswer("neterr", 0, FALSE, FALSE, <<>>, <<>>),
    OAnswer("http", 404, TRUE, FALSE, <<>>, <<>>),
    OAnswer("http", 200, FALSE, FALSE, <<>>, <<>>),
    OAnswer("http", 200, TRUE, FALSE, <<>>, <<>>),
    OAnswer("http", 200, TRUE, FALSE, <<>>, <<"h","t","t","p","s",":","/","/","o","a",".","o","r","g","/","p">>),
    OAnswer("http", 200, TRUE, TRUE, <<"h","t","t","p","s",":","/","/","o","a",".","o","r","g","/","p",".","p","d","f">>, <<"h","t","t","p","s",":","/","/","o","a",".","o","r","g","/","p">>),
    OAnswer("http", 200, TRUE, TRUE, <<>>, <<"h","t","t","p","s",":","/","/","o","a",".","o","r","g","/","p">>),
    OAnswer("http", 200, TRUE, TRUE, <<>>, <<>>),
    OAnswer("http", 200, TRUE, TRUE, <<"f","t","p",":","/","/","o","a",".","o","r","g","/","p",".","p","d","f">>, <<>>) }

\* page bodies
PDFBytes == <<"%","P","D","F","-","1",".","4"," ","x">>
PagePlain == <<"<","p",">","N","o"," ","P","D","F","<","/","p",">">>
PageMeta == <<"<","m","e","t","a"," ","n","a","m","e","=","\"","c","i","t","a","t","i","o","n","_","p","d","f","_","u","r","l","\""," ","c","o","n","t","e","n","t","=","\"","h","t","t","p","s",":","/","/","p",".","o","r","g","/","d","\"",">","<","p",">","T","<","/","p",">">>
PageHref == <<"<","p",">","T","<","/","p",">","<","a"," ","h","r","e","f","=","\"","/","f","/","p",".","p","d","f","\"",">","P","D","F","<","/","a",">">>
PageQuery == <<"<","a"," ","h","r","e","f","=","\"","p",".","p","d","f","?","d","l","=","1","\"",">","P","D","F","<","/","a",">">>
PageFTP == <<"<","a"," ","h","r","e","f","=","\"","f","t","p",":","/","/","p",".","o","r","g","/","p",".","p","d","f","\"",">","P","D","F","<","/","a",">">>
PageHttpRel == <<"<","a"," ","h","r","e","f","=","\"","h","t","t","p","d","o","c","s","/","p",".","p","d","f","\"",">","P","D","F","<","/","a",">">>

Answer(status, body, ct) ==
  [hops |-> <<>>, kind |-> "http", status |-> status, body |-> body, ct |-> ct]
NetErr == [hops |-> <<>>, kind |-> "neterr", status |-> 0, body |-> <<>>, ct |-> <<>>]
\* an answer with status 200 whose body breaks off
Unread(body, ct) ==
  [hops |-> <<>>, kind |-> "unread", status |-> 200, body |-> body, ct |-> ct]

\* the i-th URL of a redirect chain
Hop(i) == <<"h","t","t","p","s",":","/","/","r",".","o","r","g","/">> \o <<DigitChars[i + 1]>>
Chain(n) == [i \in 1..n |-> Hop(i)]

\* answers to the first fetch
Terminals1 ==
  { NetErr,
    Unread(PDFBytes, <<"a","p","p","l","i","c","a","t","i","o","n","/","p","d","f">>),
    Answer(404, <<"g","o","n","e">>, <<"t","e","x","t","/","h","t","m","l">>),
    Answer(200, PagePlain, <<"t","e","x","t","/","h","t","m","l">>),
    Answer(200, PageMeta, <<"t","e","x","t","/","h","t","m","l",";"," ","c","h","a","r","s","e","t","=","u","t","f","-","8">>),
    Answer(200, PageHref, <<"t","e","x","t","/","h","t","m","l">>),
    Answer(200, PageQuery, <<"t","e","x","t","/","h","t","m","l">>),
    Answer(200, PageFTP, <<"t","e","x","t","/","h","t","m","l">>),
    Answer(200, PageHttpRel, <<"t","e","x","t","/","h","t","m","l">>),
    Answer(200, PageMeta, <<"t","e","x","t","/","p","l","a","i","n">>),
    Answer(200, PDFBytes, <<"a","p","p","l","i","c","a","t","i","o","n","/","p","d","f">>),
    Answer(200, PDFBytes, <<>>),
    Answer(200, PageHref, <<"a","p","p","l","i","c","a","t","i","o","n","/","p","d","f">>) }
Responses1 ==
  Terminals1 \cup
  { [t EXCEPT !.hops = Chain(n)] :
      t \in {Answer(200, PageHref, <<"t","e","x","t","/","h","t","m","l">>), Answer(200, PDFBytes, <<>>)},
      n \in 1..MaxHops }

\* answers to the fetch of a PDF link found in a page
Terminals2 ==
  { NetErr,
    Unread(PDFBytes, <<"a","p","p","l","i","c","a","t","i","o","n","/","p","d","f">>),
    Answer(404, <<"g","o","n","e">>, <<"t","e","x","t","/","h","t","m","l">>),
    Answer(200, PDFBytes, <<"a","p","p","l","i","c","a","t","i","o","n","/","p","d","f">>),
    Answer(200, PDFBytes, <<"a","p","p","l","i","c","a","t","i","o","n","/","o","c","t","e","t","-","s","t","r","e","a","m">>),
    Answer(200, <<"<","p",">","L","o","g","i","n","<","/","p",">">>, <<"t","e","x","t","/","h","t","m","l">>),
    Answer(200, <<"x">>, <<"a","p","p","l","i","c","a","t","i","o","n","/","p","d","f">>) }
Responses2 ==
  Terminals2 \cup
  { [t EXCEPT !.hops = h] :
      t \in {Answer(200, <<"<","p",">","L","o","g","i","n","<","/","p",">">>, <<"t","e","x","t","/","h","t","m","l">>)},
      h \in {<<<<"h","t","t","p","s",":","/","/","r",".","o","r","g","/","l","o","g","i","n">>>>, <<<<"h","t","t","p","s",":","/","/","r",".","o","r","g","/","f",".","p","d","f">>>>} }


(***************************************************************************)
(* fetch-paper: AcademicFetchPaperTool.Execute                             *)
(***************************************************************************)
MsgSaveTo == "save_to is required"
MsgEmail == "email_for_polite must be set in academic tools config to use DOI/Unpaywall lookup"
MsgUnpaywall == "Unpaywall lookup failed for DOI"
MsgNoInput == "either url or doi must be provided"
MsgScheme == "only http/https URLs are supported"
MsgSaveFailed == "failed to save file"
MsgSaved == "Paper saved"

\* the checks with the contact-email check left out
fetchPaperConfigError_NoEmailCheck(saveTo, paperArg, doi, email) ==
  IF saveTo = <<>> THEN MsgSaveTo ELSE ""

\* the checks of Execute that precede the Unpaywall lookup
fetchPaperConfigError(saveTo, paperArg, doi, email) ==
  IF saveTo = <<>> THEN MsgSaveTo
  ELSE IF paperArg = <<>> /\ doi # <<>> /\ email = <<>> THEN MsgEmail
  ELSE ""

\* the choice without the fallback on the DOI resolver page
choosePaperURL_NoFallback(paperArg, doi, look) ==
  IF paperArg = <<>> /\ doi # <<>> THEN look.pdfURL ELSE paperArg

\* the URL to fetch: the url argument, or from the DOI the open-access URL
\* of the lookup, or the DOI resolver page when the lookup names none
choosePaperURL(paperArg, doi, look) ==
  IF paperArg = <<>> /\ doi # <<>>
    THEN IF look.pdfURL # <<>> THEN look.pdfURL ELSE DOIResolver \o doi
    ELSE paperArg

\* the checks of Execute on the URL to fetch
validateURL(paperURL) ==
  LET parsed == urlParse(paperURL)
  IN IF paperURL = <<>> THEN MsgNoInput
     ELSE IF ~parsed.ok \/ parsed.scheme \notin {<<"h","t","t","p">>, <<"h","t","t","p","s">>} THEN MsgScheme
     ELSE ""

\* the replacement decided by the declared content type alone
retryIsPDF_ContentTypeOnly(f2, pdfLink) ==
  ~f2.err /\ Contains(f2.contentType, ApplicationPDF)

\* whether the PDF link's fetch f2 replaces the page: err == nil && detectPDF(...)
retryIsPDF(f2, pdfLink) ==
  ~f2.err /\ detectPDF(f2.body, f2.contentType, pdfLink)

\* the artifact whose text carries no provenance header
composeArtifact_NoHeader(isPDF, body, contentType, finalURL, t) ==
  IF isPDF
    THEN [data |-> body, fileType |-> "PDF"]
    ELSE [data |-> IF Contains(contentType, TextHTML) THEN extractText(body) ELSE body,
          fileType |-> "text"]

\* the bytes saved and the file type reported
composeArtifact(isPDF, body, contentType, finalURL, t) ==
  IF isPDF
    THEN [data |-> body, fileType |-> "PDF"]
    ELSE [data |-> TextHeader(finalURL, t)
                     \o (IF Contains(contentType, TextHTML) THEN extractText(body) ELSE body),
          fileType |-> "text"]

NoFetch == FetchFail(<<>>, "")

\* the local variables of Execute before any is set
NoRun ==
  [oa |-> NoOA, look |-> [err |-> FALSE, pdfURL |-> <<>>], paperURL |-> <<>>,
   r1 |-> NoResp, f1 |-> NoFetch, pdfLink |-> <<>>, r2 |-> NoResp, f2 |-> NoFetch,
   isPDF |-> FALSE, saveData |-> <<>>]

\* Execute waits for the answer to the request it has just sent: nothing is
\* written and nothing is returned yet
FetchPaperAwaits(request, saveTo, paperArg, doi, sent, asked, locals) ==
  /\ pc' = request
  /\ call' = [tool |-> "fetch_paper", save_to |-> saveTo, url |-> paperArg, doi |-> doi]
  /\ netLog' = sent
  /\ fetched' = asked
  /\ run' = locals
  /\ UNCHANGED <<emailForPolite, now, files, result, fsLog, fnIn, fnOut>>

\* Execute, as far as the answers received let it run: oa, r1 and r2 are the
\* answers to the Unpaywall request, to the fetch of the paper URL and to the
\* fetch of the PDF link, "none" for one that has not arrived or was never
\* asked for.  The singleton quantifiers name the values of the local
\* variables.  Execute stops at the first request whose answer is missing.
FetchPaper(saveTo, paperArg, doi, oa, r1, r2) ==
  \E cfg \in {fetchPaperConfigError(saveTo, paperArg, doi, emailForPolite)} :
  \E needOA \in {cfg = "" /\ paperArg = <<>> /\ doi # <<>>} :
  \E sentOA \in {IF needOA THEN <<[api |-> "unpaywall", url |-> doi]>> ELSE <<>>} :
    IF needOA /\ oa = NoOA
      THEN FetchPaperAwaits("unpaywall", saveTo, paperArg, doi, sentOA, <<>>, NoRun)
    ELSE
     \E look \in {IF needOA THEN unpaywallLookup(doi, emailForPolite, oa)
                            ELSE [err |-> FALSE, pdfURL |-> <<>>]} :
     \E paperURL \in {IF cfg = "" /\ ~look.err THEN choosePaperURL(paperArg, doi, look)
                                               ELSE <<>>} :
     \E early \in {IF cfg # "" THEN cfg
                   ELSE IF look.err THEN MsgUnpaywall
                   ELSE validateURL(paperURL)} :
     \E send1 \in {early = "" /\ Sendable(paperURL)} :
     \E sent1 \in {sentOA \o (IF send1 THEN <<[api |-> "fetch", url |-> paperURL]>>
                                       ELSE <<>>)} :
       IF send1 /\ r1 = NoResp
         THEN FetchPaperAwaits("fetch", saveTo, paperArg, doi, sent1, <<paperURL>>,
                               [NoRun EXCEPT !.oa = oa, !.look = look,
                                             !.paperURL = paperURL])
       ELSE
        \E f1 \in {IF early = "" THEN fetchURLWithRedirects(paperURL, r1) ELSE NoFetch} :
        \E isPDF1 \in {early = "" /\ ~f1.err
                        /\ detectPDF(f1.body, f1.contentType, f1.finalURL)} :
        \E pdfLink \in {IF early = "" /\ ~f1.err /\ ~isPDF1
                           /\ Contains(f1.contentType, TextHTML)
                          THEN findPDFURLInHTML(f1.body, f1.finalURL)
                          ELSE <<>>} :
        \E send2 \in {pdfLink # <<>> /\ Sendable(pdfLink)} :
        \E sent2 \in {sent1 \o (IF send2 THEN <<[api |-> "fetch", url |-> pdfLink]>>
                                         ELSE <<>>)} :
        \E asked \in {(IF early = "" THEN <<paperURL>> ELSE <<>>)
                      \o (IF pdfLink # <<>> THEN <<pdfLink>> ELSE <<>>)} :
          IF send2 /\ r2 = NoResp
            THEN FetchPaperAwaits("retry", saveTo, paperArg, doi, sent2, asked,
                                  [NoRun EXCEPT !.oa = oa, !.look = look,
                                                !.paperURL = paperURL, !.r1 = r1,
                                                !.f1 = f1, !.pdfLink = pdfLink])
          ELSE
           \E f2 \in {IF pdfLink # <<>> THEN fetchURLWithRedirects(pdfLink, r2)
                                        ELSE NoFetch} :
           \E upgraded \in {pdfLink # <<>> /\ retryIsPDF(f2, pdfLink)} :
           \E isPDF \in {isPDF1 \/ upgraded} :
           \E saves \in {early = "" /\ ~f1.err} :
           \E t \in IF saves /\ ~isPDF THEN 0..MaxClock ELSE {0} :
           \E art \in {composeArtifact(isPDF,
                                       IF upgraded THEN f2.body ELSE f1.body,
                                       IF upgraded THEN f2.contentType ELSE f1.contentType,
                                       IF upgraded THEN pdfLink ELSE f1.finalURL,
                                       t)} :
           \E wok \in IF saves THEN BOOLEAN ELSE {FALSE} :
             /\ pc' = "returned"
             /\ call' = [tool |-> "fetch_paper", save_to |-> saveTo,
                         url |-> paperArg, doi |-> doi]
             /\ result' =
                  IF early # "" THEN [NoResult EXCEPT !.isError = TRUE, !.msg = early]
                  ELSE IF f1.err THEN [NoResult EXCEPT !.isError = TRUE, !.msg = f1.why]
                  ELSE IF ~wok THEN [NoResult EXCEPT !.isError = TRUE, !.msg = MsgSaveFailed]
                  ELSE [isError |-> FALSE, msg |-> MsgSaved,
                        fileType |-> art.fileType, bytes |-> Len(art.data)]
             /\ files' = IF saves /\ wok THEN (saveTo :> art.data) @@ files ELSE files
             /\ fsLog' = IF saves THEN <<[op |-> "write", path |-> saveTo, ok |-> wok]>>
                                  ELSE <<>>
             /\ netLog' = sent2
             /\ fetched' = asked
             /\ run' = [oa |-> oa, look |-> look, paperURL |-> paperURL, r1 |-> r1,
                        f1 |-> f1, pdfLink |-> pdfLink, r2 |-> r2, f2 |-> f2,
                        isPDF |-> isPDF, saveData |-> IF saves THEN art.data ELSE <<>>]
             /\ now' = t
             /\ UNCHANGED <<emailForPolite, fnIn, fnOut>>

(***************************************************************************)
(* extract-citations: AcademicExtractCitationsTool.Execute                 *)
(***************************************************************************)
\* the max_citations used when the argument is absent or out of range
DefaultMaxCitations == 20
\* the largest max_citations accepted
MaxCitationsLimit == 50

MsgFilePath == "file_path is required"
MsgSaveDir == "save_dir is required when download_available=true"
MsgReadFailed == "failed to read file"
MsgNoText == "no text content could be extracted from the file"
MsgNoCitations == "No citations could be extracted from the paper (no reference section or DOIs found)"
MsgReportFailed == "analysis done but failed to save report"
MsgReport == "report"
MsgReportSaved == "Report saved"

\* the paper files of the file system
PaperBracket == <<"I","n","t","r","o","\n","R","e","f","e","r","e","n","c","e","s","\n","[","1","]"," ","A","."," ","2","0","2","0","."," ","d","o","i",":","1","0",".","1","2","3","4","/","a","\n","[","2","]"," ","B","."," ","2","0","2","1",".","\n">>
PaperDOIs == <<"s","e","e"," ","1","0",".","1","2","3","4","/","a"," ","a","n","d"," ","1","0",".","5","6","7","8","/","b",".">>
PaperPlain == <<"N","o"," ","c","i","t","a","t","i","o","n","s"," ","h","e","r","e",".">>
PaperBlank == <<" ","\n">>
PaperAlike == <<"R","e","f","e","r","e","n","c","e","s","\n","[","1","]"," ","A"," ","d","o","i",":","1","0",".","1","2","3","4","/","a","/","b","\n","[","2","]"," ","B"," ","d","o","i",":","1","0",".","1","2","3","4","/","a","_","b","\n">>
PaperScan == <<"%","P","D","F","x00","x80","R","e","f","e","r","e","n","c","e","s","\n","1","."," ","A","."," ","1","9","9","9",".","\n","2","."," ","B",".","x00">>

InitialFiles ==
  (<<"r","e","f","s",".","t","x","t">> :> PaperBracket) @@ (<<"d","o","i","s",".","t","x","t">> :> PaperDOIs)
  @@ (<<"p","l","a","i","n",".","t","x","t">> :> PaperPlain) @@ (<<"b","l","a","n","k",".","t","x","t">> :> PaperBlank)
  @@ (<<"s","c","a","n",".","p","d","f">> :> PaperScan) @@ (<<"a","l","i","k","e",".","t","x","t">> :> PaperAlike)

FilePathArgs == {<<>>, <<"g","o","n","e",".","t","x","t">>} \cup DOMAIN InitialFiles
\* the max_citations argument: whether it is given, and its value
MaxCitationArgs ==
  {[given |-> FALSE, value |-> 0], [given |-> TRUE, value |-> 1],
   [given |-> TRUE, value |-> MaxCitationsLimit + 1]}
SaveDirArgs == {<<>>, <<"d","l">>}
SaveReportArgs == {<<>>, <<"r",".","t","x","t">>}

\* answers of the Crossref API
CRResponses ==
  { CRAnswer("neterr", 0, FALSE, <<>>, <<>>, <<>>),
    CRAnswer("http", 503, TRUE, <<<<"E">>>>, <<>>, <<>>),
    CRAnswer("http", 200, FALSE, <<>>, <<>>, <<>>),
    CRAnswer("http", 200, TRUE, <<<<"T">>, <<"U">>>>,
             <<[given |-> <<"A">>, family |-> <<"B">>], [given |-> <<>>, family |-> <<>>],
               [given |-> <<>>, family |-> <<"C">>]>>,
             <<<<2015, 5>>>>),
    CRAnswer("http", 200, TRUE, <<>>, <<>>, <<<<-44>>, <<2001>>>>) }

\* answers of the Unpaywall API about a cited paper
CiteOAResponses ==
  { OAnswer("neterr", 0, FALSE, FALSE, <<>>, <<>>),
    OAnswer("http", 200, TRUE, FALSE, <<>>, <<"h","t","t","p","s",":","/","/","o","a",".","o","r","g","/","p">>),
    OAnswer("http", 200, TRUE, TRUE, <<>>, <<>>),
    OAnswer("http", 200, TRUE, TRUE, <<"h","t","t","p","s",":","/","/","o","a",".","o","r","g","/","p",".","p","d","f">>, <<"h","t","t","p","s",":","/","/","o","a",".","o","r","g","/","p">>),
    OAnswer("http", 200, TRUE, TRUE, <<>>, <<"h","t","t","p","s",":","/","/","o","a",".","o","r","g","/","p">>) }

\* answers to the download of a cited paper
DownloadResponses ==
  { NetErr,
    Unread(PDFBytes, <<"a","p","p","l","i","c","a","t","i","o","n","/","p","d","f">>),
    Answer(200, PDFBytes, <<"a","p","p","l","i","c","a","t","i","o","n","/","p","d","f">>),
    Answer(200, <<"<","p",">","L","o","g","i","n","<","/","p",">">>, <<"t","e","x","t","/","h","t","m","l">>) }

\* the answers of the environment about one record; an answer to a request
\* that is not made is the "none" one
NoCiteAnswer == [cr |-> NoCR, oa |-> NoOA, dl |-> NoResp, wok |-> FALSE]
CiteAnswers ==
  [cr : CRResponses \cup {NoCR}, oa : CiteOAResponses \cup {NoOA},
   dl : DownloadResponses \cup {NoResp}, wok : BOOLEAN]

\* the checks with the one on save_dir left out
extractConfigError_NoSaveDirCheck(filePath, downloadAvailable, saveDir) ==
  IF filePath = <<>> THEN MsgFilePath ELSE ""

\* the checks of Execute that precede the reading of the file
extractConfigError(filePath, downloadAvailable, saveDir) ==
  IF filePath = <<>> THEN MsgFilePath
  ELSE IF downloadAvailable /\ saveDir = <<>> THEN MsgSaveDir
  ELSE ""

\* the number of citations Execute asks parseCitationRefs for
effectiveMaxCitations(mc) ==
  IF mc.given /\ mc.value > 0 /\ mc.value <= MaxCitationsLimit
    THEN mc.value
    ELSE DefaultMaxCitations

\* the text of the file: extracted from a PDF, or the file itself
paperText(fileData) ==
  IF Len(fileData) >= 4 /\ SubSeq(fileData, 1, 4) = PDFMagic
    THEN extractTextFromPDF(fileData)
    ELSE fileData

\* the text parsed: the references section, or the whole text without one
refSectionOf(text) ==
  LET section == extractCitationSection(text)
  IN IF section = <<>> THEN text ELSE section

\* the loop body that looks every record up, with or without DOI
enrichStep_NoDOIGuard(ref, a, email, downloadAvailable, saveDir, t) ==
  LET asksOA == email # <<>>
      outcome(r2, wants, sends, sp, d) ==
        [ref |-> r2,
         net |-> <<[api |-> "crossref", url |-> ref.DOI]>>
                 \o (IF asksOA THEN <<[api |-> "unpaywall", url |-> ref.DOI]>> ELSE <<>>)
                 \o (IF sends THEN <<[api |-> "fetch", url |-> r2.PDFURL]>> ELSE <<>>),
         fetched |-> IF wants THEN <<r2.PDFURL>> ELSE <<>>,
         writes |-> IF d.writes
                      THEN <<[op |-> "write", path |-> sp, ok |-> a.wok, data |-> d.data]>>
                      ELSE <<>>,
         downloaded |-> d.ok,
         asked |-> [cr |-> TRUE, oa |-> asksOA, dl |-> sends, wok |-> d.writes]]
      download(r2, wants, sp) ==
        outcome(r2, wants, wants /\ Sendable(r2.PDFURL), sp,
                IF wants THEN downloadCitationPaper(r2, sp, a.dl, a.wok)
                         ELSE [writes |-> FALSE, data |-> <<>>, ok |-> FALSE])
      enriched(r2) ==
        download(r2, downloadAvailable /\ r2.IsOA /\ r2.PDFURL # <<>>,
                 citationSavePath(saveDir, r2, t))
  IN enriched(enrichCitationOA(IF a.cr.kind = "http" /\ a.cr.status = 200 /\ a.cr.parses
                                 THEN crossrefFilled(ref, a.cr)
                                 ELSE ref,
                               email, a.oa))

\* the body of the loop of Execute on one record, under the answers a: the
\* record after it, the requests and the write made, and which of the
\* answers were asked for
enrichStep(ref, a, email, downloadAvailable, saveDir, t) ==
  LET asks == ref.DOI # <<>>
      asksOA == asks /\ email # <<>>
      outcome(r2, wants, sends, sp, d) ==
        [ref |-> r2,
         net |-> (IF asks THEN <<[api |-> "crossref", url |-> ref.DOI]>> ELSE <<>>)
                 \o (IF asksOA THEN <<[api |-> "unpaywall", url |-> ref.DOI]>> ELSE <<>>)
                 \o (IF sends THEN <<[api |-> "fetch", url |-> r2.PDFURL]>> ELSE <<>>),
         fetched |-> IF wants THEN <<r2.PDFURL>> ELSE <<>>,
         writes |-> IF d.writes
                      THEN <<[op |-> "write", path |-> sp, ok |-> a.wok, data |-> d.data]>>
                      ELSE <<>>,
         downloaded |-> d.ok,
         asked |-> [cr |-> asks, oa |-> asksOA, dl |-> sends, wok |-> d.writes]]
      download(r2, wants, sp) ==
        outcome(r2, wants, wants /\ Sendable(r2.PDFURL), sp,
                IF wants THEN downloadCitationPaper(r2, sp, a.dl, a.wok)
                         ELSE [writes |-> FALSE, data |-> <<>>, ok |-> FALSE])
      enriched(r2) ==
        download(r2, downloadAvailable /\ r2.IsOA /\ r2.PDFURL # <<>>,
                 citationSavePath(saveDir, r2, t))
  IN enriched(IF asks
                THEN enrichCitationOA(lookupCitationViaCrossref(ref, email, a.cr),
                                      email, a.oa)
                ELSE ref)

\* the answers the environment can give about one record
AnswersFor(ref, email, downloadAvailable, saveDir) ==
  LET fits(a, asked) ==
        /\ (a.cr # NoCR) = asked.cr
        /\ (a.oa # NoOA) = asked.oa
        /\ (a.dl # NoResp) = asked.dl
        /\ (a.wok => asked.wok)
  IN {a \in CiteAnswers :
        fits(a, enrichStep(ref, a, email, downloadAvailable, saveDir, 0).asked)}

\* whether the loop body reads the clock for the record: citationSavePath is
\* called for a record without DOI and without index
readsClock(ref, a, email, downloadAvailable, saveDir) ==
  LET unnamed(step) == step.fetched # <<>> /\ step.ref.DOI = <<>> /\ step.ref.Index <= 0
  IN unnamed(enrichStep(ref, a, email, downloadAvailable, saveDir, 0))

RECURSIVE applyWrites(_, _)
\* the file system after the writes ws, in their order
applyWrites(fs, ws) ==
  IF ws = <<>> THEN fs
  ELSE applyWrites(IF Head(ws).ok THEN (Head(ws).path :> Head(ws).data) @@ fs ELSE fs,
                   Tail(ws))

\* the report that lists the open-access records only
reportOf_OpenAccessOnly(filePath, refs, email, downloadAvailable, oaCount, downloadedCount) ==
  <<"C","i","t","a","t","i","o","n"," ","a","n","a","l","y","s","i","s"," ","o","f"," ">> \o filePath \o <<"\n">>
  \o <<"F","o","u","n","d"," ">> \o Itoa(Len(refs)) \o <<" ","c","i","t","a","t","i","o","n","s">>
  \o <<"\n", "\n">>
  \o Concat([i \in 1..Len(refs) |->
       IF refs[i].IsOA
         THEN <<"-","-","-"," ","C","i","t","a","t","i","o","n"," ">> \o Itoa(i) \o <<" ","-","-","-">> \o <<"\n">>
              \o CitationFormat(refs[i]) \o <<"\n">>
         ELSE <<>>])

\* the report of Execute
reportOf(filePath, refs, email, downloadAvailable, oaCount, downloadedCount) ==
  <<"C","i","t","a","t","i","o","n"," ","a","n","a","l","y","s","i","s"," ","o","f"," ">> \o filePath \o <<"\n">>
  \o <<"F","o","u","n","d"," ">> \o Itoa(Len(refs)) \o <<" ","c","i","t","a","t","i","o","n","s">>
  \o (IF email # <<>> THEN <<","," ">> \o Itoa(oaCount) \o <<" ","o","p","e","n"," ","a","c","c","e","s","s">> ELSE <<>>)
  \o (IF downloadAvailable THEN <<","," ">> \o Itoa(downloadedCount) \o <<" ","d","o","w","n","l","o","a","d","e","d">> ELSE <<>>)
  \o <<"\n", "\n">>
  \o Concat([i \in 1..Len(refs) |->
       <<"-","-","-"," ","C","i","t","a","t","i","o","n"," ">> \o Itoa(i) \o <<" ","-","-","-">> \o <<"\n">>
       \o CitationFormat(refs[i]) \o <<"\n">>])

\* the summary returned when the report is saved
summaryOf(n, oaCount, saveReportTo) ==
  <<"F","o","u","n","d"," ">> \o Itoa(n) \o <<" ","c","i","t","a","t","i","o","n","s"," ","(">> \o Itoa(oaCount)
  \o <<" ","o","p","e","n"," ","a","c","c","e","s","s",")","."," ","R","e","p","o","r","t"," ","s","a","v","e","d"," ","t","o"," ">> \o saveReportTo

\* the requests of a loop that never looks at the context
loopRequests_NoBreak(steps, processed) ==
  Concat([i \in 1..Len(steps) |-> steps[i].net])

\* the requests the loop of Execute makes: those of the records it handles
\* before it finds the context cancelled
loopRequests(steps, processed) ==
  Concat([i \in 1..processed |-> steps[i].net])

ExtractResult(isError, msg, forLLM, forUser) ==
  [isError |-> isError, msg |-> msg, forLLM |-> forLLM, forUser |-> forUser]

\* the part of Execute that precedes the loop: the checks, the reading of the
\* file and the parsing of its references
extractPrelude(filePath, mc, downloadAvailable, saveDir, fs) ==
  LET cfg == extractConfigError(filePath, downloadAvailable, saveDir)
      maxCitations == effectiveMaxCitations(mc)
      rok == cfg = "" /\ filePath \in DOMAIN fs
      text == IF rok THEN paperText(fs[filePath]) ELSE <<>>
      hasText == rok /\ Len(TrimSpace(text)) # 0
      refSection == IF hasText THEN refSectionOf(text) ELSE <<>>
  IN [cfg |-> cfg, reads |-> cfg = "", rok |-> rok, text |-> text, hasText |-> hasText,
      refSection |-> refSection, maxCitations |-> maxCitations,
      parsed |-> IF hasText THEN parseCitationRefs(refSection, maxCitations) ELSE <<>>]

\* the request the loop body waits for on a record whose answers so far are
\* a: the first one it makes that has no answer, "" when there is none
pendingRequest(a, asked) ==
  IF asked.cr /\ a.cr = NoCR THEN "crossref"
  ELSE IF asked.oa /\ a.oa = NoOA THEN "unpaywall"
  ELSE IF asked.dl /\ a.dl = NoResp THEN "download"
  ELSE ""

\* the requests of a loop body that have been sent when it waits for the
\* answer to request
requestsSent(step, request) ==
  SubSeq(step.net, 1, IF request = "crossref" THEN 1
                      ELSE IF request = "unpaywall" THEN 2
                      ELSE Len(step.net))

\* the entries of the file-system log for the writes ws
writeEntries(ws) ==
  [i \in 1..Len(ws) |-> [op |-> "write", path |-> ws[i].path, ok |-> ws[i].ok]]

\* Execute from the call (k = 0) or from the arrival of an answer about
\* record k, up to the next request or to the return.  c holds the arguments,
\* pre the values computed before the loop and ans the answers received so
\* far, and body what the loop body does on each record under them: only
\* that of record k is new.  The loop finds the context cancelled at the top
\* of one of the iterations it starts, or at none.
ExtractCitations(c, pre, k, ans, body) ==
  \E parsed \in {pre.parsed} :
  \E t \in IF \E i \in 1..k :
                readsClock(parsed[i], ans[i], emailForPolite,
                           c.download_available, c.save_dir)
            THEN 0..MaxClock ELSE {0} :
  \E steps \in {[i \in 1..Len(parsed) |->
                  IF i = k THEN enrichStep(parsed[i], ans[i], emailForPolite,
                                           c.download_available, c.save_dir, t)
                           ELSE body[i]]} :
  \E pending \in {[i \in 1..Len(parsed) |-> pendingRequest(ans[i], steps[i].asked)]} :
  \E next \in {IF \E i \in (k + 1)..Len(parsed) : pending[i] # ""
                 THEN CHOOSE i \in (k + 1)..Len(parsed) :
                        /\ pending[i] # ""
                        /\ \A j \in (k + 1)..(i - 1) : pending[j] = ""
                 ELSE Len(parsed) + 1} :
  \E readLog \in {IF k = 0 /\ pre.reads
                    THEN <<[op |-> "read", path |-> c.file_path, ok |-> pre.rok]>>
                    ELSE <<>>} :
    LET \* Execute waits for the answer to request about record w, the
        \* records before w handled and written
        awaits(w, request) ==
          \E done \in {IF k > 0 /\ k < w THEN steps[k].writes ELSE <<>>} :
          \E refs \in {[i \in 1..Len(parsed) |->
                         IF i <= w THEN steps[i].ref ELSE parsed[i]]} :
            /\ pc' = request
            /\ call' = c
            /\ files' = applyWrites(files, done)
            /\ fsLog' = fsLog \o readLog \o writeEntries(done)
            /\ netLog' = loopRequests(steps, w - 1) \o requestsSent(steps[w], request)
            /\ fetched' = Concat([i \in 1..(w - 1) |-> steps[i].fetched])
                          \o (IF request = "download" THEN steps[w].fetched ELSE <<>>)
            /\ run' = [text |-> pre.text, refSection |-> pre.refSection,
                       parsed |-> parsed, maxCitations |-> pre.maxCitations,
                       processed |-> w - 1, answers |-> ans, steps |-> steps,
                       refs |-> refs,
                       oaCount |-> 0,
                       downloadedCount |->
                         Cardinality({i \in 1..(w - 1) : steps[i].downloaded}),
                       report |-> <<>>]
            /\ UNCHANGED <<emailForPolite, now, result, fnIn, fnOut>>
        \* the loop is over after processed records: Execute builds the
        \* report, saves it and returns
        returns(processed) ==
          \E refs \in {[i \in 1..Len(parsed) |->
                         IF i <= processed THEN steps[i].ref ELSE parsed[i]]} :
          \E downloadedCount \in {Cardinality({i \in 1..processed : steps[i].downloaded})} :
          \E oaCount \in {Cardinality({i \in 1..Len(refs) : refs[i].IsOA})} :
          \E report \in {IF Len(parsed) > 0
                           THEN reportOf(c.file_path, refs, emailForPolite,
                                         c.download_available, oaCount, downloadedCount)
                           ELSE <<>>} :
          \E saves \in {Len(parsed) > 0 /\ c.save_report_to # <<>>} :
          \E wok \in IF saves THEN BOOLEAN ELSE {FALSE} :
          \E writes \in {(IF k > 0 THEN steps[k].writes ELSE <<>>)
                         \o (IF saves THEN <<[op |-> "write", path |-> c.save_report_to,
                                              ok |-> wok, data |-> report]>>
                                      ELSE <<>>)} :
            /\ pc' = "returned"
            /\ call' = c
            /\ result' =
                 IF pre.cfg # "" THEN ExtractResult(TRUE, pre.cfg, <<>>, <<>>)
                 ELSE IF ~pre.rok THEN ExtractResult(TRUE, MsgReadFailed, <<>>, <<>>)
                 ELSE IF ~pre.hasText THEN ExtractResult(TRUE, MsgNoText, <<>>, <<>>)
                 ELSE IF Len(parsed) = 0
                   THEN ExtractResult(FALSE, MsgNoCitations, <<>>, <<>>)
                 ELSE IF saves /\ ~wok
                   THEN ExtractResult(TRUE, MsgReportFailed, <<>>, <<>>)
                 ELSE IF saves
                   THEN ExtractResult(FALSE, MsgReportSaved,
                                      summaryOf(Len(refs), oaCount, c.save_report_to),
                                      report)
                 ELSE ExtractResult(FALSE, MsgReport, report, report)
            /\ files' = applyWrites(files, writes)
            /\ fsLog' = fsLog \o readLog \o writeEntries(writes)
            /\ netLog' = loopRequests(steps, processed)
            /\ fetched' = Concat([i \in 1..processed |-> steps[i].fetched])
            /\ run' = [text |-> pre.text, refSection |-> pre.refSection,
                       parsed |-> parsed, maxCitations |-> pre.maxCitations,
                       processed |-> processed, answers |-> ans, steps |-> steps,
                       refs |-> refs, oaCount |-> oaCount,
                       downloadedCount |-> downloadedCount, report |-> report]
            /\ now' = t
            /\ UNCHANGED <<emailForPolite, fnIn, fnOut>>
    IN IF k > 0 /\ pending[k] # ""
         THEN awaits(k, pending[k])
         ELSE \/ \E top \in (k + 1)..next : top <= Len(parsed) /\ returns(top - 1)
              \/ next <= Len(parsed) /\ awaits(next, pending[next])
              \/ next > Len(parsed) /\ returns(Len(parsed))

\* Execute is called: it reads the file and runs up to its first request, or
\* returns
ExtractCitationsCall ==
  /\ pc = "idle"
  /\ \E f \in FilePathArgs, mc \in MaxCitationArgs, d \in BOOLEAN,
        sd \in SaveDirArgs, sr \in SaveReportArgs :
     \E pre \in {extractPrelude(f, mc, d, sd, files)} :
       ExtractCitations([tool |-> "extract_citations", file_path |-> f,
                         max_citations |-> mc, download_available |-> d,
                         save_dir |-> sd, save_report_to |-> sr],
                        pre, 0, [i \in 1..Len(pre.parsed) |-> NoCiteAnswer],
                        [i \in 1..Len(pre.parsed) |->
                           enrichStep(pre.parsed[i], NoCiteAnswer, emailForPolite, d, sd, 0)])

\* the values computed before the loop, as Execute holds them in the loop
loopLocals ==
  [cfg |-> "", reads |-> TRUE, rok |-> TRUE, text |-> run.text, hasText |-> TRUE,
   refSection |-> run.refSection, maxCitations |-> run.maxCitations,
   parsed |-> run.parsed]

\* the answer of Crossref about the record in hand arrives (line 2038)
ExtractCitationsLookedUp ==
  /\ pc = "crossref"
  /\ call.tool = "extract_citations"
  /\ \E cr \in CRResponses :
       ExtractCitations(call, loopLocals, run.processed + 1,
                        [run.answers EXCEPT ![run.processed + 1].cr = cr], run.steps)

\* the answer of Unpaywall about the record in hand arrives (line 2039)
ExtractCitationsEnriched ==
  /\ pc = "unpaywall"
  /\ call.tool = "extract_citations"
  /\ \E oa \in CiteOAResponses :
       ExtractCitations(call, loopLocals, run.processed + 1,
                        [run.answers EXCEPT ![run.processed + 1].oa = oa], run.steps)

\* the answer to the download of the record in hand arrives (line 2043), and
\* a PDF is written (line 1899)
ExtractCitationsDownloaded ==
  /\ pc = "download"
  /\ call.tool = "extract_citations"
  /\ \E dl \in DownloadResponses, wok \in BOOLEAN :
     \E a \in {[run.answers[run.processed + 1] EXCEPT !.dl = dl, !.wok = wok]} :
       /\ a \in AnswersFor(run.parsed[run.processed + 1], emailForPolite,
                           call.download_available, call.save_dir)
       /\ ExtractCitations(call, loopLocals, run.processed + 1,
                           [run.answers EXCEPT ![run.processed + 1] = a], run.steps)

\* Execute is called: it runs up to its first request, or returns
FetchPaperCall ==
  /\ pc = "idle"
  /\ \E s \in SaveArgs, u \in URLArgs, d \in DOIArgs :
       FetchPaper(s, u, d, NoOA, NoResp, NoResp)

\* the answer of Unpaywall arrives (line 1395)
FetchPaperLookedUp ==
  /\ pc = "unpaywall"
  /\ call.tool = "fetch_paper"
  /\ \E oa \in OAResponses :
       FetchPaper(call.save_to, call.url, call.doi, oa, NoResp, NoResp)

\* the answer to the fetch of the paper URL arrives (line 1417)
FetchPaperFetched ==
  /\ pc = "fetch"
  /\ call.tool = "fetch_paper"
  /\ \E r1 \in Responses1 :
       FetchPaper(call.save_to, call.url, call.doi, run.oa, r1, NoResp)

\* the answer to the fetch of the PDF link arrives (line 1427)
FetchPaperRetried ==
  /\ pc = "retry"
  /\ call.tool = "fetch_paper"
  /\ \E r2 \in Responses2 :
       FetchPaper(call.save_to, call.url, call.doi, run.oa, run.r1, r2)

Init ==
  /\ emailForPolite \in Emails
  /\ now = 0
  /\ files = InitialFiles
  /\ call = NoCall
  /\ result = NoResult
  /\ netLog = <<>>
  /\ fsLog = <<>>
  /\ fetched = <<>>
  /\ run = NoRun
  /\ pc = "idle"
  /\ fnIn = NoFn
  /\ fnOut = NoFn

Next ==
  \/ FetchPaperCall
  \/ FetchPaperLookedUp
  \/ FetchPaperFetched
  \/ FetchPaperRetried
  \/ ExtractCitationsCall
  \/ ExtractCitationsLookedUp
  \/ ExtractCitationsEnriched
  \/ ExtractCitationsDownloaded

Spec == Init /\ [][Next]_vars


(***************************************************************************)
(* academic_search: AcademicSearchTool.Execute on a tool constructed by    *)
(* NewAcademicSearchTool.  The functions that query the sources are the    *)
(* environment: each one asked answers with an error or with papers.       *)
(***************************************************************************)
\* the sources of buildSearchFuncs, in its order
SearchSources ==
  <<<<"o","p","e","n","a","l","e","x">>, <<"a","r","x","i","v">>, <<"p","l","o","s">>, <<"c","r","o","s","s","r","e","f">>, <<"d","o","a","j">>, <<"d","b","l","p">>, <<"p","u","b","m","e","d">>,
    <<"s","e","m","a","n","t","i","c","_","s","c","h","o","l","a","r">>, <<"s","p","r","i","n","g","e","r">>, <<"i","e","e","e">>, <<"e","l","s","e","v","i","e","r">>, <<"l","e","n","s">>>>

\* the sources that answer "no API key configured" without a key
KeyedSources == {<<"s","p","r","i","n","g","e","r">>, <<"i","e","e","e">>, <<"e","l","s","e","v","i","e","r">>, <<"l","e","n","s">>}

\* the per-source limit of a tool constructed without one
DefaultMaxResults == 5
\* the greatest max_results argument that is used
MaxResultsLimit == 20
\* the length of abstract that PaperResult.Format shows
AbstractLimit == 500

\* NewAcademicSearchTool: the options of the tool constructed
NewAcademicSearchTool(opts) ==
  IF opts.MaxResultsPerSource <= 0
    THEN [opts EXCEPT !.MaxResultsPerSource = DefaultMaxResults]
    ELSE opts

\* the limit Execute hands to every source
searchMaxResults(opts, mr) ==
  IF mr.given /\ mr.value > 0 /\ mr.value <= MaxResultsLimit
    THEN mr.value
    ELSE opts.MaxResultsPerSource

\* shouldSearch
shouldSearch(name, requestedSources) ==
  \/ Len(requestedSources) = 0
  \/ \E i \in 1..Len(requestedSources) : requestedSources[i] = name

\* the strings among the elements of the sources argument
requestedSourcesOf(srcs) ==
  IF ~srcs.given THEN <<>>
  ELSE LET strs == SelectSeq(srcs.value, LAMBDA e : e.isString)
       IN [i \in 1..Len(strs) |-> strs[i].s]

\* PaperResult.Format
PaperFormat(p) ==
  <<"T","i","t","l","e",":"," ">> \o p.Title \o <<"\n">>
  \o (IF Len(p.Authors) > 0 THEN <<"A","u","t","h","o","r","s",":"," ">> \o Join(p.Authors, <<","," ">>) \o <<"\n">> ELSE <<>>)
  \o (IF p.Year # <<>> THEN <<"Y","e","a","r",":"," ">> \o p.Year \o <<"\n">> ELSE <<>>)
  \o (IF p.DOI # <<>> THEN <<"D","O","I",":"," ">> \o p.DOI \o <<"\n">> ELSE <<>>)
  \o (IF p.URL # <<>> THEN <<"U","R","L",":"," ">> \o p.URL \o <<"\n">> ELSE <<>>)
  \o (IF p.PDFURL # <<>> THEN <<"P","D","F",":"," ">> \o p.PDFURL \o <<"\n">> ELSE <<>>)
  \o (IF p.Abstract # <<>>
        THEN <<"A","b","s","t","r","a","c","t",":"," ">>
             \o (IF Len(p.Abstract) > AbstractLimit
                   THEN SubSeq(p.Abstract, 1, AbstractLimit) \o <<".",".",".">>
                   ELSE p.Abstract)
             \o <<"\n">>
        ELSE <<>>)
  \o <<"S","o","u","r","c","e",":"," ">> \o p.Source \o <<"\n">>

\* the verb %q of fmt on a string of printable ASCII, line breaks and tabs
GoQuote(s) ==
  <<"\"">>
  \o Concat([i \in 1..Len(s) |->
       IF s[i] = "\"" THEN <<"\\", "\"">>
       ELSE IF s[i] = "\\" THEN <<"\\", "\\">>
       ELSE IF s[i] = "\n" THEN <<"\\", "n">>
       ELSE IF s[i] = "\t" THEN <<"\\", "t">>
       ELSE IF s[i] = "\r" THEN <<"\\", "r">>
       ELSE <<s[i]>>])
  \o <<"\"">>

\* the entries of searchErrors: "name: err"
searchErrorTexts(searchErrors) ==
  [i \in 1..Len(searchErrors) |-> searchErrors[i].name \o <<":"," ">> \o searchErrors[i].err]

\* the text Execute formats
searchText(query, allResults, searchErrors) ==
  <<"A","c","a","d","e","m","i","c"," ","s","e","a","r","c","h"," ","r","e","s","u","l","t","s"," ","f","o","r",":"," ">> \o GoQuote(query) \o <<"\n">>
  \o <<"F","o","u","n","d"," ">> \o Itoa(Len(allResults)) \o <<" ","p","a","p","e","r","s","\n">>
  \o (IF Len(searchErrors) > 0
        THEN <<"E","r","r","o","r","s",":"," ">> \o Join(searchErrorTexts(searchErrors), <<";"," ">>) \o <<"\n">>
        ELSE <<>>)
  \o <<"\n">>
  \o Concat([i \in 1..Len(allResults) |->
       <<"-","-","-"," ","P","a","p","e","r"," ">> \o Itoa(i) \o <<" ","-","-","-","\n">> \o PaperFormat(allResults[i]) \o <<"\n">>])

\* the summary returned when the results are saved
searchSummary(n, query, saveTo) ==
  <<"F","o","u","n","d"," ">> \o Itoa(n) \o <<" ","p","a","p","e","r","s"," ","f","o","r"," ">> \o GoQuote(query) \o <<"."," ","R","e","s","u","l","t","s"," ","s","a","v","e","d"," ","t","o"," ">> \o saveTo

MsgQuery == "query is required"
MsgAllFailed == "all searches failed"
MsgResultsFailed == "search succeeded but failed to save results"
MsgResults == "results"
MsgResultsSaved == "Results saved"

\* the answers of a source: an error, or papers
SourceError(err) == [err |-> err, papers |-> <<>>]
SourcePapers(papers) == [err |-> <<>>, papers |-> papers]
PaperOf(name) ==
  [Source |-> name, Title |-> <<"T">>, Authors |-> <<<<"A"," ","B">>, <<"C">>>>, Year |-> <<"2","0","1","5">>,
   Abstract |-> <<>>, DOI |-> <<"1","0",".","1","2","3","4","/","a">>, URL |-> <<>>, PDFURL |-> <<>>]

\* the answer of the i-th function of buildSearchFuncs: that of the source,
\* or the error of a function that has no key to ask with
searchFn(i, opts, ans) ==
  IF SearchSources[i] \in KeyedSources /\ SearchSources[i] \notin opts.keys
    THEN SourceError(<<"n","o"," ","A","P","I"," ","k","e","y"," ","c","o","n","f","i","g","u","r","e","d">>)
    ELSE ans[i]

RECURSIVE searchLoop(_, _, _, _, _, _)
\* the loop of Execute over the functions of buildSearchFuncs from the i-th
\* to the one numbered last: the functions called, the papers and the errors
\* collected
searchLoop(i, last, opts, requestedSources, ans, acc) ==
  IF i > last THEN acc
  ELSE IF ~shouldSearch(SearchSources[i], requestedSources)
    THEN searchLoop(i + 1, last, opts, requestedSources, ans, acc)
  ELSE LET r == searchFn(i, opts, ans)
           asked == Append(acc.asked, i)
       IN IF r.err # <<>>
            THEN searchLoop(i + 1, last, opts, requestedSources, ans,
                   [acc EXCEPT !.asked = asked,
                               !.searchErrors = Append(@, [name |-> SearchSources[i], err |-> r.err])])
            ELSE searchLoop(i + 1, last, opts, requestedSources, ans,
                   [acc EXCEPT !.asked = asked, !.allResults = @ \o r.papers])

\* at most MaxOdd of the sources answer otherwise than the others do
MaxOdd == 1

\* the options the tool is constructed with: the limit, and the keys set
SearchOptions ==
  { [MaxResultsPerSource |-> 0, keys |-> {}],
    [MaxResultsPerSource |-> 10, keys |-> {<<"s","p","r","i","n","g","e","r">>}],
    [MaxResultsPerSource |-> 25, keys |-> {}] }

\* the arguments of the call
QueryArgs == {<<>>, <<"q">>, <<"a","\"","b">>}
MaxResultsArgs ==
  {[given |-> FALSE, value |-> 0], [given |-> TRUE, value |-> 0],
   [given |-> TRUE, value |-> 1], [given |-> TRUE, value |-> MaxResultsLimit],
   [given |-> TRUE, value |-> MaxResultsLimit + 1]}
SourceArg(s) == [isString |-> TRUE, s |-> s]
SourcesArgs ==
  { [given |-> FALSE, value |-> <<>>],
    [given |-> TRUE, value |-> <<SourceArg(<<"a","r","x","i","v">>)>>],
    [given |-> TRUE, value |-> <<SourceArg(<<"a","r","x","i","v">>), SourceArg(<<"o","p","e","n","a","l","e","x">>)>>],
    [given |-> TRUE, value |-> <<SourceArg(<<"s","p","r","i","n","g","e","r">>), [isString |-> FALSE, s |-> <<>>], SourceArg(<<"p","l","o","s">>)>>],
    [given |-> TRUE, value |-> <<SourceArg(<<"u","n","p","a","y","w","a","l","l">>)>>] }
SearchSaveArgs == {<<>>, <<"s",".","t","x","t">>}

\* the answers of the sources the call can meet, one per function of
\* buildSearchFuncs; that of a function which asks no source is not used
SearchAnswers(opts, requestedSources) ==
  LET n == Len(SearchSources)
      asks(i) == /\ shouldSearch(SearchSources[i], requestedSources)
                 /\ (SearchSources[i] \in KeyedSources => SearchSources[i] \in opts.keys)
      asked == {i \in 1..n : asks(i)}
      odds == {o \in SUBSET asked : Cardinality(o) <= MaxOdd}
      kinds == {"error", "none", "one"}
      answer(i, k) ==
        IF k = "error" THEN SourceError(<<"E">>)
        ELSE IF k = "none" THEN SourcePapers(<<>>)
        ELSE SourcePapers(<<PaperOf(SearchSources[i])>>)
      among(base, o) ==
        { [i \in 1..n |->
             IF i \notin asked THEN SourcePapers(<<>>)
             ELSE IF i \in o THEN answer(i, g[i]) ELSE answer(i, base)] :
          g \in [o -> kinds] }
  IN UNION {among(base, o) : base \in kinds, o \in odds}

PubMed == <<"p","u","b","m","e","d">>
\* the list of ids esearch answers searchPubMed with when it finds papers
ESearchIDs == <<<<"7">>, <<"8">>>>

\* the request a function of buildSearchFuncs sends to its source
SourceRequest(i, query, maxResults) ==
  [api |-> SearchSources[i], url |-> query, limit |-> maxResults]
\* the second request of searchPubMed: the summaries of the first maxResults
\* of the ids found
SummaryRequest(ids, maxResults) ==
  [api |-> PubMed,
   url |-> Join(SubSeq(ids, 1, IF Len(ids) > maxResults THEN maxResults ELSE Len(ids)),
                <<",">>),
   limit |-> maxResults]

\* what a function of buildSearchFuncs returned: an error, no paper, papers
AnswerKind(a) ==
  IF a.err # <<>> THEN "error" ELSE IF a.papers = <<>> THEN "none" ELSE "one"

\* whether the answers received so far are, in kind, among those the call can
\* meet
Met(ans, answered, opts, requestedSources) ==
  \E full \in SearchAnswers(opts, requestedSources) :
    \A i \in answered : AnswerKind(full[i]) = AnswerKind(ans[i])

\* Execute of a tool constructed with the options c.opts, from the call
\* (k = 0) or from the answer of the k-th function of buildSearchFuncs, up to
\* the next request to a source or to the return; ans holds the answers
\* received so far.  The contact email of the options is emailForPolite,
\* which Execute only hands to the Crossref source.
Search(c, k, ans) ==
  \E opts \in {NewAcademicSearchTool(c.opts)} :
  \E runs \in {c.query # <<>>} :
  \E maxResults \in {searchMaxResults(opts, c.max_results)} :
  \E requestedSources \in {requestedSourcesOf(c.sources)} :
  \E sends \in {{i \in (k + 1)..Len(SearchSources) :
                   /\ runs
                   /\ shouldSearch(SearchSources[i], requestedSources)
                   /\ SearchSources[i] \in KeyedSources => SearchSources[i] \in opts.keys}} :
  \E next \in {IF sends # {} THEN CHOOSE i \in sends : \A j \in sends : i <= j
                             ELSE Len(SearchSources) + 1} :
  \E loop \in {IF runs
                 THEN searchLoop(1, next - 1, opts, requestedSources, ans,
                                 [asked |-> <<>>, allResults |-> <<>>, searchErrors |-> <<>>])
                 ELSE [asked |-> <<>>, allResults |-> <<>>, searchErrors |-> <<>>]} :
    IF next <= Len(SearchSources)
      THEN \* the next function sends its request
           /\ pc' = "source"
           /\ call' = c
           /\ netLog' = Append(netLog, SourceRequest(next, c.query, maxResults))
           /\ run' = [opts |-> opts, maxResults |-> maxResults,
                      requestedSources |-> requestedSources, answers |-> ans,
                      asked |-> Append(loop.asked, next), allResults |-> loop.allResults,
                      searchErrors |-> loop.searchErrors, text |-> <<>>]
           /\ UNCHANGED <<emailForPolite, now, files, result, fsLog, fetched, fnIn, fnOut>>
      ELSE
       \E allFailed \in {Len(loop.allResults) = 0 /\ Len(loop.searchErrors) > 0} :
       \E text \in {IF runs /\ ~allFailed
                      THEN searchText(c.query, loop.allResults, loop.searchErrors)
                      ELSE <<>>} :
       \E saves \in {runs /\ ~allFailed /\ c.save_to # <<>>} :
       \E wok \in IF saves THEN BOOLEAN ELSE {FALSE} :
         /\ pc' = "returned"
         /\ call' = c
         /\ result' =
              IF ~runs THEN ExtractResult(TRUE, MsgQuery, <<>>, <<>>)
              ELSE IF allFailed
                THEN ExtractResult(TRUE, MsgAllFailed,
                                   <<"a","l","l"," ","s","e","a","r","c","h","e","s"," ","f","a","i","l","e","d",":"," ">>
                                   \o Join(searchErrorTexts(loop.searchErrors), <<";"," ">>), <<>>)
              ELSE IF saves /\ ~wok THEN ExtractResult(TRUE, MsgResultsFailed, <<>>, <<>>)
              ELSE IF saves
                THEN ExtractResult(FALSE, MsgResultsSaved,
                                   searchSummary(Len(loop.allResults), c.query, c.save_to),
                                   text)
              ELSE ExtractResult(FALSE, MsgResults, text, text)
         /\ files' = IF saves /\ wok THEN (c.save_to :> text) @@ files ELSE files
         /\ fsLog' = IF saves THEN <<[op |-> "write", path |-> c.save_to, ok |-> wok]>>
                              ELSE <<>>
         /\ netLog' = netLog
         /\ run' = [opts |-> opts, maxResults |-> maxResults,
                    requestedSources |-> requestedSources, answers |-> ans,
                    asked |-> loop.asked, allResults |-> loop.allResults,
                    searchErrors |-> loop.searchErrors, text |-> text]
         /\ UNCHANGED <<emailForPolite, now, fetched, fnIn, fnOut>>

\* Execute is called: it runs up to the first request to a source, or returns
SearchCall ==
  /\ pc = "idle"
  /\ \E o \in SearchOptions, q \in QueryArgs, mr \in MaxResultsArgs,
        srcs \in SourcesArgs, s \in SearchSaveArgs :
       Search([tool |-> "academic_search", opts |-> o, query |-> q,
               max_results |-> mr, sources |-> srcs, save_to |-> s],
              0, [i \in 1..Len(SearchSources) |-> SourcePapers(<<>>)])

\* the function of buildSearchFuncs whose request is on the wire
InHand == run.asked[Len(run.asked)]

\* the source in hand answers its function (line 178), which returns an
\* error or papers; searchPubMed returns here on an error or on an empty list
\* of ids (line 859), otherwise it goes on to its second request
SearchAnswered ==
  /\ pc = "source"
  /\ call.tool = "academic_search"
  /\ \E kind \in {"error", "none", "one"} :
     \E a \in {IF kind = "error" THEN SourceError(<<"E">>)
               ELSE IF kind = "none" THEN SourcePapers(<<>>)
               ELSE SourcePapers(<<PaperOf(SearchSources[InHand])>>)} :
     \E ans \in {[run.answers EXCEPT ![InHand] = a]} :
       /\ SearchSources[InHand] = PubMed => kind # "one"
       /\ Met(ans, {run.asked[j] : j \in 1..Len(run.asked)}, run.opts, run.requestedSources)
       /\ Search(call, InHand, ans)

\* esearch answers searchPubMed with ids: it sends the request for their
\* summaries (line 881)
SearchListed ==
  /\ pc = "source"
  /\ call.tool = "academic_search"
  /\ SearchSources[InHand] = PubMed
  /\ pc' = "summary"
  /\ netLog' = Append(netLog, SummaryRequest(ESearchIDs, run.maxResults))
  /\ UNCHANGED <<emailForPolite, now, files, call, result, fsLog, fetched, run, fnIn, fnOut>>

\* a document of the result object of esummary, and whether it decodes to
\* the fields searchPubMed reads
SummaryDoc(decodes, title, pubdate, authors, doi) ==
  [decodes |-> decodes, title |-> title, pubdate |-> pubdate, authors |-> authors, doi |-> doi]
DocFull == SummaryDoc(TRUE, <<"T">>, <<"2","0","1","5"," ","M","a","r"," ","3">>, <<<<"A"," ","B">>, <<"C">>>>, <<"d","o","i",":"," ","1","0",".","1","2","3","4","/","a">>)
DocBare == SummaryDoc(TRUE, <<>>, <<"2","0","1">>, <<>>, <<>>)
DocUndecoded == SummaryDoc(FALSE, <<>>, <<>>, <<>>, <<>>)

\* the answers of esummary: a request that fails, a body that is no JSON
\* object with a result object, or the result object, which describes some
\* of the ids
SummaryFailed == [kind |-> "neterr", result |-> <<>>]
SummaryUnparsed == [kind |-> "unparsed", result |-> <<>>]
SummaryResult(described) == [kind |-> "result", result |-> described]
SummaryAnswers ==
  { SummaryFailed,
    SummaryUnparsed,
    SummaryResult(<<>>),
    SummaryResult(ESearchIDs[1] :> DocFull @@ ESearchIDs[2] :> DocBare),
    SummaryResult(ESearchIDs[2] :> DocFull),
    SummaryResult(ESearchIDs[1] :> DocUndecoded @@ ESearchIDs[2] :> DocFull),
    SummaryResult(ESearchIDs[1] :> DocUndecoded) }

\* the paper searchPubMed makes of a document (lines 913-933)
pubmedPaper(id, doc) ==
  [Source |-> <<"P","u","b","M","e","d"," ","C","e","n","t","r","a","l">>,
   Title |-> doc.title,
   Authors |-> doc.authors,
   Year |-> IF Len(doc.pubdate) >= 4 THEN SubSeq(doc.pubdate, 1, 4) ELSE <<>>,
   Abstract |-> <<>>,
   DOI |-> doc.doi,
   URL |-> <<"h","t","t","p","s",":","/","/","w","w","w",".","n","c","b","i",".","n","l","m",".","n","i","h",".","g","o","v","/","p","m","c","/","a","r","t","i","c","l","e","s","/","P","M","C">> \o id \o <<"/">>,
   PDFURL |-> <<"h","t","t","p","s",":","/","/","w","w","w",".","n","c","b","i",".","n","l","m",".","n","i","h",".","g","o","v","/","p","m","c","/","a","r","t","i","c","l","e","s","/","P","M","C">> \o id \o <<"/","p","d","f","/">>]

\* the papers of searchPubMed: one for each of the ids, in their order, that
\* the result describes with a document that decodes (lines 900-935)
pubmedPapers(ids, described) ==
  Concat([k \in 1..Len(ids) |->
            IF ids[k] \in DOMAIN described /\ described[ids[k]].decodes
              THEN <<pubmedPaper(ids[k], described[ids[k]])>>
              ELSE <<>>])

\* what searchPubMed returns on the answer of esummary: the error of the
\* request, that of json.Unmarshal, or the papers
searchPubMed(ids, s) ==
  IF s.kind = "neterr" THEN SourceError(<<"E">>)
  ELSE IF s.kind = "unparsed"
    THEN SourceError(<<"p","a","r","s","e"," ","e","s","u","m","m","a","r","y"," ","e","r","r","o","r",":"," ">> \o <<"E">>)
  ELSE SourcePapers(pubmedPapers(ids, s.result))

\* esummary answers searchPubMed, which returns an error or the papers
\* described
SearchSummarised ==
  /\ pc = "summary"
  /\ call.tool = "academic_search"
  /\ \E s \in SummaryAnswers :
     \E ids \in {SubSeq(ESearchIDs, 1, IF Len(ESearchIDs) > run.maxResults
                                         THEN run.maxResults ELSE Len(ESearchIDs))} :
     \E ans \in {[run.answers EXCEPT ![InHand] = searchPubMed(ids, s)]} :
       /\ Met(ans, {run.asked[j] : j \in 1..Len(run.asked)}, run.opts, run.requestedSources)
       /\ Search(call, InHand, ans)

NextSearch ==
  \/ SearchCall
  \/ SearchAnswered
  \/ SearchListed
  \/ SearchSummarised

SpecSearch == Init /\ [][NextSearch]_vars

(***************************************************************************)
(* The helpers called on their own, on inputs drawn from bounded sets      *)
(***************************************************************************)
\* bodies handed to detectPDF have up to MaxBodyLen bytes
MaxBodyLen == 4
\* pages handed to findPDFURLInHTML are made of up to MaxFrags fragments
MaxFrags == 2

SeqsUpTo(S, n) == UNION {[1..k -> S] : k \in 0..n}

DetectBodies == SeqsUpTo({"%", "P", "D", "F"}, MaxBodyLen) \cup {PDFBytes, PagePlain}
DetectCTs ==
  {<<>>, <<"a","p","p","l","i","c","a","t","i","o","n","/","p","d","f">>, <<"a","p","p","l","i","c","a","t","i","o","n","/","p","d","f",";"," ","c","h","a","r","s","e","t","=","b","i","n","a","r","y">>, <<"t","e","x","t","/","h","t","m","l">>,
   <<"A","p","p","l","i","c","a","t","i","o","n","/","P","D","F">>, <<"a","p","p","l","i","c","a","t","i","o","n","/","x","-","p","d","f">>}
DetectURLs ==
  {<<>>, <<"h","t","t","p","s",":","/","/","h",".","o","r","g","/","d","o","c",".","p","d","f">>, <<"h","t","t","p","s",":","/","/","h",".","o","r","g","/","D","O","C",".","P","d","f">>, <<"h","t","t","p","s",":","/","/","h",".","o","r","g","/","p","a","g","e">>,
   <<"h","t","t","p","s",":","/","/","h",".","o","r","g","/","a",".","p","d","f","?","d","l","=","1">>, <<"h","t","t","p","s",":","/","/","h",".","o","r","g","/","v","?","f","=","a",".","p","d","f">>, <<"h","t","t","p","s",":","/","/","h",".","o","r","g","/","p","#","a",".","p","d","f">>,
   <<"h","t","t","p","s",":","/","/","h",".","o","r","g","/","a",".","p","d","f","x">>, <<".","p","d","f">>, <<"p","d","f">>}

PureIdle ==
  /\ emailForPolite = <<>>
  /\ now = 0
  /\ files = <<>>
  /\ call = NoCall
  /\ result = NoResult
  /\ netLog = <<>>
  /\ fsLog = <<>>
  /\ fetched = <<>>
  /\ run = NoRun
  /\ pc = "idle"
  /\ fnIn = NoFn
  /\ fnOut = NoFn

DetectPDFCall ==
  /\ fnIn = NoFn
  /\ \E b \in DetectBodies, c \in DetectCTs, u \in DetectURLs :
       /\ fnIn' = [fn |-> "detectPDF", body |-> b, contentType |-> c, fetchedURL |-> u]
       /\ fnOut' = detectPDF(b, c, u)
  /\ UNCHANGED <<emailForPolite, now, files, call, result, netLog, fsLog, fetched, run, pc>>

SpecDetect == PureIdle /\ [][DetectPDFCall]_vars

\* the fragments pages are made of: the markup, the pattern of the list that
\* it matches (0: none) and the URL it carries
Frag(html, pat, url) == [html |-> html, pat |-> pat, url |-> url]
Fragments ==
  { Frag(<<"<","m","e","t","a"," ","n","a","m","e","=","\"","c","i","t","a","t","i","o","n","_","p","d","f","_","u","r","l","\""," ","c","o","n","t","e","n","t","=","\"","h","t","t","p","s",":","/","/","p",".","o","r","g","/","m",".","p","d","f","\"",">">>, 1, <<"h","t","t","p","s",":","/","/","p",".","o","r","g","/","m",".","p","d","f">>),
    Frag(<<"<","M","E","T","A"," ","c","o","n","t","e","n","t","=","'","/","m","2","'"," ","N","A","M","E","=","'","c","i","t","a","t","i","o","n","_","p","d","f","_","u","r","l","'",">">>, 2, <<"/","m","2">>),
    Frag(<<"<","d","i","v"," ","d","a","t","a","-","p","d","f","-","u","r","l","=","\"","d","/","x","\"",">","<","/","d","i","v",">">>, 3, <<"d","/","x">>),
    Frag(<<"<","a"," ","h","r","e","f","=","\"","/","f","/","p",".","p","d","f","\"",">","P","D","F","<","/","a",">">>, 4, <<"/","f","/","p",".","p","d","f">>),
    Frag(<<"<","a"," ","h","r","e","f","=","\"","h","t","t","p","d","o","c","s","/","q",".","P","D","F","?","d","l","=","1","\"",">","P","D","F","<","/","a",">">>, 4, <<"h","t","t","p","d","o","c","s","/","q",".","P","D","F","?","d","l","=","1">>),
    Frag(<<"<","a"," ","h","r","e","f","=","\"","a","\n","b",".","p","d","f","\"",">","P","D","F","<","/","a",">">>, 4, <<"a","\n","b",".","p","d","f">>),
    Frag(<<"<","a"," ","h","r","e","f","=","\"","p",".","p","d","f","#","a","#","b","\"",">","x","<","/","a",">">>, 4, <<"p",".","p","d","f","#","a","#","b">>),
    Frag(<<"<","a"," ","h","r","e","f","=","\"","/","d","l","\""," ","t","y","p","e","=","\"","a","p","p","l","i","c","a","t","i","o","n","/","p","d","f","\"",">","P","D","F","<","/","a",">">>, 5, <<"/","d","l">>),
    Frag(<<"<","a"," ","t","y","p","e","=","\"","a","p","p","l","i","c","a","t","i","o","n","/","p","d","f","\""," ","h","r","e","f","=","\"","/","/","c",".","o","r","g","/","d","l","2","\"",">","P","D","F","<","/","a",">">>, 6, <<"/","/","c",".","o","r","g","/","d","l","2">>),
    Frag(<<"<","a"," ","h","r","e","f","=","\"","/","a","b","o","u","t","\"",">","A","b","o","u","t","<","/","a",">">>, 0, <<>>) }

FindBases == {<<>>, <<"h","t","t","p","s",":","/","/","h",".","o","r","g","/","a","/","b","?","q","=","1">>, <<":","b","a","d">>}

PageOf(frags) == Concat([i \in 1..Len(frags) |-> frags[i].html])

FindPDFCall ==
  /\ fnIn = NoFn
  /\ \E frags \in SeqsUpTo(Fragments, MaxFrags), base \in FindBases :
       /\ fnIn' = [fn |-> "findPDFURLInHTML", frags |-> frags,
                   htmlContent |-> PageOf(frags), baseURL |-> base]
       /\ fnOut' = findPDFURLInHTML(PageOf(frags), base)
  /\ UNCHANGED <<emailForPolite, now, files, call, result, netLog, fsLog, fetched, run, pc>>

SpecFind == PureIdle /\ [][FindPDFCall]_vars


\* sections handed to parseCitationRefs are made of up to MaxLines lines
MaxLines == 3
\* the caps handed to parseCitationRefs range over 0..MaxCap
MaxCap == 2
\* the max_citations arguments range over -1..MaxArg
MaxArg == 52
\* the suffixes of the DOIs handed to extractDOIFromText have up to
\* MaxSuffixLen characters
MaxSuffixLen == 3

\* the lines sections are made of: the text, the number of the [N] marker
\* and of the N. marker the line starts with (0: none), and the DOIs the
\* line carries, in its order
CiteLine(text, bracket, dot, dois) ==
  [text |-> text, bracket |-> bracket, dot |-> dot, dois |-> dois]
CiteLines ==
  { CiteLine(<<"[","1","]"," ","A","."," ","2","0","2","0","."," ","d","o","i",":","1","0",".","1","2","3","4","/","a">>, 1, 0, <<<<"1","0",".","1","2","3","4","/","a">>>>),
    CiteLine(<<" ","[","2","]"," ","B"," ","1","0",".","5","6","7","8","/","b",".">>, 2, 0, <<<<"1","0",".","5","6","7","8","/","b">>>>),
    CiteLine(<<"1","."," ","A"," ","1","9","9","9"," ","(","1","0",".","1","2","3","4","/","a",")">>, 0, 1, <<<<"1","0",".","1","2","3","4","/","a">>>>),
    CiteLine(<<"2","."," ","B">>, 0, 2, <<>>),
    CiteLine(<<"s","e","e"," ","1","0",".","5","6","7","8","/","b",";"," ","D","O","I",":","1","0",".","1","2","3","4","/","a">>, 0, 0, <<<<"1","0",".","5","6","7","8","/","b">>, <<"1","0",".","1","2","3","4","/","a">>>>) }

\* the section made of the lines, each ended by a newline
SectionOf(lines) == Concat([i \in 1..Len(lines) |-> lines[i].text \o <<"\n">>])

\* the number of markers that makes a numbering style the strategy
MinMarkers == 2

\* sections in which both numbering styles can have MinMarkers markers: two
\* runs of MinMarkers numbered lines
NumberedSections ==
  LET numbered == {l \in CiteLines : l.bracket > 0 \/ l.dot > 0}
  IN {a \o b : a \in [1..MinMarkers -> numbered], b \in [1..MinMarkers -> numbered]}

ParseCitationRefsCall ==
  /\ fnIn = NoFn
  /\ \E lines \in SeqsUpTo(CiteLines, MaxLines) \cup NumberedSections, k \in 0..MaxCap :
       /\ fnIn' = [fn |-> "parseCitationRefs", lines |-> lines,
                   refSection |-> SectionOf(lines), maxCitations |-> k]
       /\ fnOut' = parseCitationRefs(SectionOf(lines), k)
  /\ UNCHANGED <<emailForPolite, now, files, call, result, netLog, fsLog, fetched, run, pc>>

\* the max_citations arguments: absent, or a number
MaxCitationInputs ==
  {[given |-> FALSE, value |-> 0]} \cup {[given |-> TRUE, value |-> v] : v \in -1..MaxArg}

MaxCitationsCall ==
  /\ fnIn = NoFn
  /\ \E mc \in MaxCitationInputs :
       /\ fnIn' = [fn |-> "maxCitations", mc |-> mc]
       /\ fnOut' = [maxCitations |-> effectiveMaxCitations(mc)]
  /\ UNCHANGED <<emailForPolite, now, files, call, result, netLog, fsLog, fetched, run, pc>>

\* DOIs: 10. and four or more digits, a slash, and a run of characters that
\* are neither white space nor one of ] ) > " ' ,
DOISuffixChars == {"a", "7", ".", ";", "/"}
DOIInputs ==
  { <<"1","0",".">> \o ds \o <<"/">> \o sfx :
      ds \in {<<"1","2","3","4">>, <<"5","6","7","8","9">>},
      sfx \in SeqsUpTo(DOISuffixChars, MaxSuffixLen) \ {<<>>} }

ExtractDOICall ==
  /\ fnIn = NoFn
  /\ \E d \in DOIInputs :
       /\ fnIn' = [fn |-> "extractDOIFromText", doi |-> d, text |-> <<"d","o","i",":">> \o d]
       /\ fnOut' = extractDOIFromText(<<"d","o","i",":">> \o d)
  /\ UNCHANGED <<emailForPolite, now, files, call, result, netLog, fsLog, fetched, run, pc>>

\* the lines documents are made of: the text, and for a line that
\* extractCitationSection takes for a header the place of the header in its
\* list and the form it is found in (1: LF, 2: CRLF, 3: colon; 0: no header)
DocLine(text, header, form) == [text |-> text, header |-> header, form |-> form]
DocLines ==
  { DocLine(<<"I","n","t","r","o">>, 0, 0),
    DocLine(<<"[","1","]"," ","A","."," ","2","0","2","0",".">>, 0, 0),
    DocLine(<<"R","e","f","e","r","e","n","c","e","s">>, 1, 1),
    DocLine(<<"R","E","F","E","R","E","N","C","E","S">>, 2, 1),
    DocLine(<<"R","e","f","e","r","e","n","c","e","s","\r">>, 1, 2),
    DocLine(<<"B","i","b","l","i","o","g","r","a","p","h","y",":"," ">>, 3, 3),
    DocLine(<<"s","e","e"," ","R","e","f","e","r","e","n","c","e","s">>, 0, 0),
    DocLine(<<"R","e","f","e","r","e","n","c","e","s","x">>, 0, 0) }

ExtractSectionCall ==
  /\ fnIn = NoFn
  /\ \E lines \in SeqsUpTo(DocLines, MaxLines) :
       /\ fnIn' = [fn |-> "extractCitationSection", lines |-> lines,
                   text |-> SectionOf(lines)]
       /\ fnOut' = extractCitationSection(SectionOf(lines))
  /\ UNCHANGED <<emailForPolite, now, files, call, result, netLog, fsLog, fetched, run, pc>>

NextCite ==
  \/ ParseCitationRefsCall
  \/ MaxCitationsCall
  \/ ExtractDOICall
  \/ ExtractSectionCall

SpecCite == PureIdle /\ [][NextCite]_vars

\* the literals handed to pdfUnescapeString have up to MaxLiteralLen
\* characters
MaxLiteralLen == 3

\* what the capture group of strInArrayRe can hold: no ")" and no "\" but in
\* an escape sequence, which is a "\" and the character after it
RECURSIVE IsCaptured(_)
IsCaptured(s) ==
  IF s = <<>> THEN TRUE
  ELSE IF s[1] = "\\" THEN Len(s) >= 2 /\ s[2] # "\n" /\ IsCaptured(SubSeq(s, 3, Len(s)))
  ELSE s[1] # ")" /\ IsCaptured(Tail(s))

LiteralChars == {"\\", "n", "(", ")", "a"}
Literals == {s \in SeqsUpTo(LiteralChars, MaxLiteralLen) : IsCaptured(s)}

UnescapeCall ==
  /\ fnIn = NoFn
  /\ \E s \in Literals :
       /\ fnIn' = [fn |-> "pdfUnescapeString", s |-> s]
       /\ fnOut' = pdfUnescapeString(s)
  /\ UNCHANGED <<emailForPolite, now, files, call, result, netLog, fsLog, fetched, run, pc>>

\* the literals of the documents handed to extractTextFromPDF have up to
\* MinPDFTextLen + MaxExtra characters
MaxExtra == 1

\* the lengths of the text of a document: a short one and those around
\* MinPDFTextLen
TextLens == {3} \cup ((MinPDFTextLen - 2)..(MinPDFTextLen + MaxExtra))

\* n letters
Pad(n) == [i \in 1..n |-> "a"]

\* a document: its bytes, the texts that its BT/ET blocks show in the order
\* in which extractTextFromPDF collects them, and its bytes as the scan for
\* printable bytes leaves them
PDFDoc(data, texts, scan) == [data |-> data, texts |-> texts, scan |-> scan]

\* the documents with a text of n characters
PDFDocsOf(n) ==
  { \* one literal, among bytes that are not printable
    PDFDoc(<<"%","P","D","F","x00","x00","B","T","\n","(">> \o Pad(n) \o <<")"," ","T","j","\n","E","T","x00">>,
           <<Pad(n)>>,
           <<"%","P","D","F","\n","B","T","\n","(">> \o Pad(n) \o <<")"," ","T","j","\n","E","T">>),
    \* two literals of one block
    PDFDoc(<<"B","T"," ","(">> \o Pad(n - 2) \o <<")"," ","T","j"," ","(","b",")"," ","T","j"," ","E","T">>,
           <<Pad(n - 2), <<"b">>>>,
           <<"B","T"," ","(">> \o Pad(n - 2) \o <<")"," ","T","j"," ","(","b",")"," ","T","j"," ","E","T">>),
    \* a literal that begins with two spaces
    PDFDoc(<<"B","T"," ","("," "," ">> \o Pad(n - 2) \o <<")"," ","T","j"," ","E","T">>,
           <<<<" "," ">> \o Pad(n - 2)>>,
           <<"B","T"," ","("," "," ">> \o Pad(n - 2) \o <<")"," ","T","j"," ","E","T">>),
    \* a literal that ends with a no-break space, U+00A0: n bytes, n - 2 of
    \* them printable, collected when these are more than half of the bytes
    PDFDoc(<<"B","T"," ","(">> \o Pad(n - 2) \o <<"xC2","xA0",")"," ","T","j"," ","E","T">>,
           IF n - 2 > n \div 2 THEN <<Pad(n - 2) \o <<"xC2","xA0">>>> ELSE <<>>,
           <<"B","T"," ","(">> \o Pad(n - 2) \o <<"\n",")"," ","T","j"," ","E","T">>),
    \* a literal that begins with a vertical tab
    PDFDoc(<<"B","T"," ","(","x0B">> \o Pad(n - 1) \o <<")"," ","T","j"," ","E","T">>,
           <<<<"x0B">> \o Pad(n - 1)>>,
           <<"B","T"," ","(","\n">> \o Pad(n - 1) \o <<")"," ","T","j"," ","E","T">>),
    \* a literal that ends with the byte 0x7f
    PDFDoc(<<"B","T"," ","(">> \o Pad(n - 1) \o <<"x7F",")"," ","T","j"," ","E","T">>,
           <<Pad(n - 1) \o <<"x7F">>>>,
           <<"B","T"," ","(">> \o Pad(n - 1) \o <<"\n",")"," ","T","j"," ","E","T">>),
    \* two blocks
    PDFDoc(<<"B","T"," ","(">> \o Pad(n - 2) \o <<")"," ","T","j"," ","E","T","x00","x80","xFF","B","T"," ","(","b",")"," ","T","j"," ","E","T">>,
           <<Pad(n - 2), <<"b">>>>,
           <<"B","T"," ","(">> \o Pad(n - 2) \o <<")"," ","T","j"," ","E","T","\n","B","T"," ","(","b",")"," ","T","j"," ","E","T">>),
    \* the strings of a TJ array
    PDFDoc(<<"B","T"," ","[","(">> \o Pad(n - 1) \o <<")"," ","-","5"," ","(","b",")","]"," ","T","J"," ","E","T">>,
           <<Pad(n - 1) \o <<"b">>>>,
           <<"B","T"," ","[","(">> \o Pad(n - 1) \o <<")"," ","-","5"," ","(","b",")","]"," ","T","J"," ","E","T">>),
    \* a TJ array before a Tj literal
    PDFDoc(<<"B","T"," ","[","(","b",")","]"," ","T","J"," ","(">> \o Pad(n - 2) \o <<")"," ","T","j"," ","E","T">>,
           <<Pad(n - 2), <<"b">>>>,
           <<"B","T"," ","[","(","b",")","]"," ","T","J"," ","(">> \o Pad(n - 2) \o <<")"," ","T","j"," ","E","T">>),
    \* an escaped parenthesis
    PDFDoc(<<"B","T"," ","(">> \o Pad(n - 1) \o <<"\\",")",")"," ","T","j"," ","E","T">>,
           <<Pad(n - 1) \o <<")">>>>,
           <<"B","T"," ","(">> \o Pad(n - 1) \o <<"\\",")",")"," ","T","j"," ","E","T">>),
    \* a literal that is not readable
    PDFDoc(<<"B","T"," ","(","x00","x80","b",")"," ","T","j"," ","(">> \o Pad(n) \o <<")"," ","T","j"," ","E","T">>,
           <<Pad(n)>>,
           <<"B","T"," ","(","\n","b",")"," ","T","j"," ","(">> \o Pad(n) \o <<")"," ","T","j"," ","E","T">>),
    \* form feeds as the white space of a block
    PDFDoc(<<"B","T","\f","(">> \o Pad(n) \o <<")"," ","T","j","\f","E","T">>,
           <<Pad(n)>>,
           <<"B","T","\n","(">> \o Pad(n) \o <<")"," ","T","j","\n","E","T">>),
    \* a byte that is no white space after BT: no block
    PDFDoc(<<"B","T","x00","(">> \o Pad(n) \o <<")"," ","T","j"," ","E","T">>,
           <<>>,
           <<"B","T","\n","(">> \o Pad(n) \o <<")"," ","T","j"," ","E","T">>),
    \* a literal outside the blocks
    PDFDoc(<<"(">> \o Pad(n) \o <<")"," ","T","j","x00">>,
           <<>>,
           <<"(">> \o Pad(n) \o <<")"," ","T","j">>) }

\* the empty input and the inputs without a printable byte
BinaryDocs ==
  { PDFDoc(<<>>, <<>>, <<>>),
    PDFDoc(<<"x00">>, <<>>, <<>>),
    PDFDoc(<<"x00","xFF","x7F">>, <<>>, <<>>),
    PDFDoc(<<"\f","x0B","x80">>, <<>>, <<>>) }

PDFDocs == BinaryDocs \cup UNION {PDFDocsOf(n) : n \in TextLens}

ExtractTextCall ==
  /\ fnIn = NoFn
  /\ \E d \in PDFDocs :
       /\ fnIn' = [fn |-> "extractTextFromPDF", doc |-> d]
       /\ fnOut' = extractTextFromPDF(d.data)
  /\ UNCHANGED <<emailForPolite, now, files, call, result, netLog, fsLog, fetched, run, pc>>

NextPDF ==
  \/ UnescapeCall
  \/ ExtractTextCall

SpecPDF == PureIdle /\ [][NextPDF]_vars


(***************************************************************************)
(* Properties of fetch-paper                                               *)
(***************************************************************************)
\* Execute of the tool has returned: what it did is in the variables
Returned(tool) == pc = "returned" /\ call.tool = tool

HTTPSchemes == {<<"h","t","t","p">>, <<"h","t","t","p","s">>}

\* the URL Execute goes on to fetch: the url argument or, on the DOI path,
\* the URL chosen after a lookup that did not fail ("" when there is none)
URLToFetch == IF call.url # <<>> THEN call.url ELSE run.paperURL

UnsupportedScheme(u) == ~urlParse(u).ok \/ urlParse(u).scheme \notin HTTPSchemes

\* C1: fetch-paper returns an error result and writes no file when neither
\* url nor doi is given, when doi is given without url and no contact email is
\* configured, and when the URL to fetch (given, or resolved from the DOI)
\* has a scheme other than http or https.
C1_RejectedInputsWriteNothing ==
  (/\ Returned("fetch_paper")
   /\ \/ call.url = <<>> /\ call.doi = <<>>
      \/ call.url = <<>> /\ call.doi # <<>> /\ emailForPolite = <<>>
      \/ URLToFetch # <<>> /\ UnsupportedScheme(URLToFetch))
  => result.isError /\ files = InitialFiles /\ fsLog = <<>>

\* the DOI was resolved by Unpaywall to an ftp URL, and Execute refused it
C1_Witness ==
  /\ Returned("fetch_paper")
  /\ call.url = <<>>
  /\ run.paperURL = <<"f","t","p",":","/","/","o","a",".","o","r","g","/","p",".","p","d","f">>
  /\ result.isError
  /\ result.msg = MsgScheme

\* C2: configuration errors are returned before any network activity.
\* fetch-paper called (with its save_to) with a doi, no url and no configured
\* contact email returns an error whose message names the missing email
\* configuration and makes no network call; fetch-paper with neither url nor
\* doi makes no network call; extract-citations with download_available and
\* no save_dir returns an error before it reads the file or makes any
\* network call.
C2_ConfigErrorsBeforeNetwork ==
  /\ (Returned("fetch_paper") /\ call.url = <<>> /\ call.doi # <<>>
        /\ emailForPolite = <<>>)
       => /\ result.isError
          /\ call.save_to # <<>> => result.msg = MsgEmail
          /\ netLog = <<>>
  /\ (Returned("fetch_paper") /\ call.url = <<>> /\ call.doi = <<>>)
       => result.isError /\ netLog = <<>>
  /\ (Returned("extract_citations") /\ call.file_path # <<>>
        /\ call.download_available /\ call.save_dir = <<>>)
       => /\ result.isError
          /\ result.msg = MsgSaveDir
          /\ fsLog = <<>>
          /\ netLog = <<>>

\* extract-citations was asked to download the papers of an existing file
\* without a save_dir, and refused before reading it
C2_Witness ==
  /\ Returned("extract_citations")
  /\ call.file_path \in DOMAIN InitialFiles
  /\ call.download_available
  /\ call.save_dir = <<>>
  /\ result.isError
  /\ result.msg = MsgSaveDir
  /\ fsLog = <<>>
  /\ netLog = <<>>

\* the DOI path of fetch-paper was entered: doi, no url, an email, a save_to
DOIPath ==
  /\ Returned("fetch_paper")
  /\ call.save_to # <<>>
  /\ call.url = <<>>
  /\ call.doi # <<>>
  /\ emailForPolite # <<>>

\* the open-access URL the Unpaywall answer carries ("" when it has none)
AnswerURL(oa) ==
  IF oa.kind = "http" /\ oa.status = 200 /\ oa.parses /\ oa.isOA
    THEN IF oa.urlPDF # <<>> THEN oa.urlPDF ELSE oa.url
    ELSE <<>>

\* the Unpaywall answer says that there is no open-access version
AnswerNotOA(oa) == oa.kind = "http" /\ oa.status = 200 /\ oa.parses /\ ~oa.isOA

\* C3: on the DOI path the open-access lookup is the first request; an
\* open-access URL it returns is the URL to fetch, and when it reports no
\* open-access version fetch-paper does not fail for that but fetches the DOI
\* resolver page https://doi.org/<doi>.
C3_DOIPathFallsBackToResolver ==
  DOIPath =>
    /\ Len(netLog) >= 1
    /\ netLog[1] = [api |-> "unpaywall", url |-> call.doi]
    /\ AnswerURL(run.oa) # <<>> =>
         /\ run.paperURL = AnswerURL(run.oa)
         /\ Len(netLog) >= 2 => netLog[2] = [api |-> "fetch", url |-> AnswerURL(run.oa)]
         /\ Len(fetched) >= 1 => fetched[1] = AnswerURL(run.oa)
    /\ AnswerNotOA(run.oa) =>
         /\ result.msg # MsgUnpaywall
         /\ Len(netLog) >= 2
         /\ netLog[2] = [api |-> "fetch", url |-> DOIResolver \o call.doi]
         /\ fetched[1] = DOIResolver \o call.doi

\* Unpaywall said "not open access", the resolver page was fetched and saved
C3_Witness ==
  /\ DOIPath
  /\ AnswerNotOA(run.oa)
  /\ fetched = <<DOIResolver \o call.doi>>
  /\ ~result.isError

\* the first fetch returned a page in which a PDF link was found
LinkFound ==
  /\ Returned("fetch_paper")
  /\ ~run.f1.err
  /\ run.pdfLink # <<>>

\* the write to save_to was made and succeeded
Saved == Len(fsLog) = 1 /\ fsLog[1].ok

\* C4 as stated: when the first fetch returns an HTML page that is not
\* classified as PDF and a PDF link is found in it, the link is fetched and
\* classified by the three signals on the second response's body, its
\* content type and the URL it was fetched from (the URL the second fetch
\* ended at); if that says PDF, the bytes saved to save_to are exactly the
\* second response's bytes and the result reports the type PDF.
C4_Original ==
  (/\ LinkFound
   /\ ~run.f2.err
   /\ detectPDF(run.f2.body, run.f2.contentType, run.f2.finalURL))
  => /\ fetched = <<run.paperURL, run.pdfLink>>
     /\ run.f2.body = run.r2.body
     /\ run.saveData = run.r2.body
     /\ Saved => /\ files[call.save_to] = run.r2.body
                 /\ ~result.isError
                 /\ result.fileType = "PDF"
                 /\ result.bytes = Len(run.r2.body)

\* C4: when the first fetch returns an HTML page that is not classified as
\* PDF and a PDF link is found in it, the link is fetched and classified by
\* the three signals on the second response's body and content type and the
\* link as it was found and requested, whatever URL its redirects ended at;
\* if that says PDF, the bytes saved to save_to are exactly the second
\* response's bytes and the result reports the type PDF.
C4_ConfirmedRetrySavesPDF ==
  (/\ LinkFound
   /\ ~run.f2.err
   /\ detectPDF(run.f2.body, run.f2.contentType, run.pdfLink))
  => /\ fetched = <<run.paperURL, run.pdfLink>>
     /\ run.f2.body = run.r2.body
     /\ run.saveData = run.r2.body
     /\ Saved => /\ files[call.save_to] = run.r2.body
                 /\ ~result.isError
                 /\ result.fileType = "PDF"
                 /\ result.bytes = Len(run.r2.body)

\* a page with a citation_pdf_url link to a URL without .pdf, whose fetch
\* returned PDF bytes, was saved as those bytes
C4_Witness ==
  /\ LinkFound
  /\ run.pdfLink = <<"h","t","t","p","s",":","/","/","p",".","o","r","g","/","d">>
  /\ run.r2.body = PDFBytes
  /\ Saved
  /\ files[call.save_to] = PDFBytes
  /\ result.fileType = "PDF"

\* C5: when the fetched page is HTML (and not classified as PDF) and no PDF
\* link is found in it, or the link cannot be fetched, or its fetch is not
\* confirmed PDF, fetch-paper still succeeds: it saves the text extracted
\* from the original page behind a header with the source URL and the fetch
\* time in RFC3339 UTC, and reports the type text.
C5_FallbackSavesText ==
  (/\ Returned("fetch_paper")
   /\ run.paperURL # <<>>
   /\ ~run.f1.err
   /\ Contains(run.f1.contentType, TextHTML)
   /\ ~detectPDF(run.f1.body, run.f1.contentType, run.f1.finalURL)
   /\ \/ run.pdfLink = <<>>
      \/ run.f2.err
      \/ ~detectPDF(run.f2.body, run.f2.contentType, run.pdfLink))
  => /\ run.saveData = <<"S","o","u","r","c","e",":"," ">> \o run.f1.finalURL \o <<"\n","F","e","t","c","h","e","d",":"," ">>
                         \o FormatRFC3339(now) \o <<"\n","\n">> \o extractText(run.r1.body)
     /\ Len(fsLog) = 1
     /\ Saved => /\ files[call.save_to] = run.saveData
                 /\ ~result.isError
                 /\ result.fileType = "text"

\* a PDF link was found and fetched, the answer was a login page, and the
\* text of the original page was saved
C5_Witness ==
  /\ LinkFound
  /\ ~run.f2.err
  /\ run.r2.body = <<"<","p",">","L","o","g","i","n","<","/","p",">">>
  /\ Saved
  /\ result.fileType = "text"
  /\ files[call.save_to] = TextHeader(run.f1.finalURL, now) \o <<"T">>

\* a syntactically well-formed absolute http/https URL
WellFormedHTTP(u) ==
  LET p == urlParse(u)
  IN p.ok /\ p.scheme \in HTTPSchemes /\ p.host # <<>>

\* C10: every URL stored in a record, and every PDF link the resolver hands
\* on to the fetcher, is empty or a well-formed absolute http/https URL.
C10_LinksAreHTTP ==
  /\ Returned("fetch_paper") => run.pdfLink = <<>> \/ WellFormedHTTP(run.pdfLink)
  /\ Returned("extract_citations") =>
       \A i \in 1..Len(run.refs) :
         /\ run.refs[i].PageURL = <<>> \/ WellFormedHTTP(run.refs[i].PageURL)
         /\ run.refs[i].PDFURL = <<>> \/ WellFormedHTTP(run.refs[i].PDFURL)


(***************************************************************************)
(* Properties of detectPDF and findPDFURLInHTML                            *)
(***************************************************************************)
DetectCalled == fnIn.fn = "detectPDF"

\* C6: for every body whose first 4 bytes are "%PDF", detectPDF is true for
\* every content type and every URL, both empty included.
C6_MagicBytesSuffice ==
  (/\ DetectCalled
   /\ Len(fnIn.body) >= 4
   /\ fnIn.body[1] = "%" /\ fnIn.body[2] = "P" /\ fnIn.body[3] = "D" /\ fnIn.body[4] = "F")
  => fnOut = TRUE

\* the body is exactly the four magic bytes and both other arguments are empty
C6_Witness ==
  /\ DetectCalled
  /\ fnIn.body = PDFMagic
  /\ fnIn.contentType = <<>>
  /\ fnIn.fetchedURL = <<>>
  /\ fnOut = TRUE

\* the three signals, read off the arguments character by character
SignalContentType(ct) ==
  \E i \in 1..Len(ct) :
    /\ i + Len(ApplicationPDF) - 1 <= Len(ct)
    /\ \A j \in 1..Len(ApplicationPDF) : ct[i + j - 1] = ApplicationPDF[j]

SignalMagic(b) ==
  Len(b) >= 4 /\ b[1] = "%" /\ b[2] = "P" /\ b[3] = "D" /\ b[4] = "F"

EndsInDotPDF(s) ==
  LET n == Len(s)
  IN /\ n >= 4
     /\ s[n - 3] = "."
     /\ s[n - 2] \in {"p", "P"}
     /\ s[n - 1] \in {"d", "D"}
     /\ s[n] \in {"f", "F"}

\* the URL signal as the claim has it: the path of the URL ends in .pdf
SignalURLPath(u) == urlParse(u).ok /\ EndsInDotPDF(urlParse(u).path)

\* the URL signal as the code has it: the URL as a whole ends in .pdf
SignalURLText(u) == EndsInDotPDF(u)

\* C7 as stated: detectPDF is true exactly when the content type contains
\* "application/pdf", or the path of the fetched URL ends in ".pdf"
\* (case-insensitively), or the body starts with "%PDF".
C7_Original ==
  DetectCalled =>
    (fnOut <=> \/ SignalContentType(fnIn.contentType)
               \/ SignalURLPath(fnIn.fetchedURL)
               \/ SignalMagic(fnIn.body))

\* C7 as amended: detectPDF is true exactly when the content type contains
\* "application/pdf", or the fetched URL as a whole (its query and fragment
\* included) ends in ".pdf" case-insensitively, or the body starts with
\* "%PDF"; it is false when none of the three holds.
C7_ThreeSignals ==
  DetectCalled =>
    (fnOut <=> \/ SignalContentType(fnIn.contentType)
               \/ SignalURLText(fnIn.fetchedURL)
               \/ SignalMagic(fnIn.body))

\* only the URL signal holds, through an upper-case suffix
C7_Witness ==
  /\ DetectCalled
  /\ fnIn.fetchedURL = <<"h","t","t","p","s",":","/","/","h",".","o","r","g","/","D","O","C",".","P","d","f">>
  /\ fnIn.contentType = <<>>
  /\ fnIn.body = <<>>
  /\ fnOut = TRUE

FindCalled == fnIn.fn = "findPDFURLInHTML"

\* the positions of the page's fragments that carry a PDF link idiom
Carriers(frags) == {i \in 1..Len(frags) : frags[i].pat > 0}

\* the fragment that decides: of the highest-priority pattern present, and
\* among those the first of the page
Deciding(frags) ==
  CHOOSE i \in Carriers(frags) :
    \A j \in Carriers(frags) :
      \/ frags[i].pat < frags[j].pat
      \/ frags[i].pat = frags[j].pat /\ i <= j

\* C8: findPDFURLInHTML returns the link of the highest-priority idiom present
\* in the page (meta citation_pdf_url, data-pdf-url, href ending in .pdf,
\* anchor of type application/pdf; within an idiom the earlier pattern of the
\* list, and then the first occurrence), wherever the idioms stand in the
\* page, and the empty string when the page has none.
C8_HighestPriorityIdiomWins ==
  FindCalled =>
    IF Carriers(fnIn.frags) = {}
      THEN fnOut = <<>>
      ELSE fnOut = resolveMatch(fnIn.frags[Deciding(fnIn.frags)].url, fnIn.baseURL)

\* a .pdf anchor stands before the citation_pdf_url meta tag, and the meta
\* tag's content is returned
C8_Witness ==
  /\ FindCalled
  /\ Len(fnIn.frags) = 2
  /\ fnIn.frags[1].pat = 4
  /\ fnIn.frags[2].pat = 1
  /\ fnOut = <<"h","t","t","p","s",":","/","/","p",".","o","r","g","/","m",".","p","d","f">>

\* u is an absolute URL
IsAbsolute(u) == urlParse(u).ok /\ urlParse(u).scheme # <<>>

\* C9: findPDFURLInHTML resolves every relative matched URL against the base
\* URL, so that with a parseable absolute base the URL returned is absolute;
\* the matched text is returned unchanged only if resolution fails.
C9_RelativeLinksResolved ==
  (/\ FindCalled
   /\ Carriers(fnIn.frags) # {}
   /\ IsAbsolute(fnIn.baseURL))
  => IF urlParse(fnIn.frags[Deciding(fnIn.frags)].url).ok
       THEN IsAbsolute(fnOut)
       ELSE fnOut = fnIn.frags[Deciding(fnIn.frags)].url

(***************************************************************************)
(* Properties of extract-citations                                         *)
(***************************************************************************)
\* extract-citations was called with arguments that pass its checks, on a
\* file that can be read
ReadablePaper ==
  /\ Returned("extract_citations")
  /\ extractConfigError(call.file_path, call.download_available, call.save_dir) = ""
  /\ call.file_path \in DOMAIN InitialFiles

\* the text of the paper read has no references header and no DOI
NoSectionNoDOI ==
  /\ extractCitationSection(paperText(InitialFiles[call.file_path])) = <<>>
  /\ ~ReFindFrom(DOIRe, InitialFiles[call.file_path], 1).ok
  /\ ~ReFindFrom(DOIRe, paperText(InitialFiles[call.file_path]), 1).ok

\* C11: extract-citations on a readable file without references section and
\* without DOI returns a result that is no error and says that no citations
\* were found; an extraction that yields no record is never reported as an
\* error.
C11_NoCitationsIsNotAnError ==
  /\ (ReadablePaper /\ NoSectionNoDOI)
       => ~result.isError /\ result.msg = MsgNoCitations
  /\ (ReadablePaper /\ run.parsed = <<>>) => ~result.isError

(***************************************************************************)
(* Properties of the citation parser                                       *)
(***************************************************************************)
ParseCalled == fnIn.fn = "parseCitationRefs"

\* the records of the section when the cap does not bind: a section has
\* fewer records than characters
Uncapped == parseCitationRefs(fnIn.refSection, Len(fnIn.refSection))

\* C12: parseCitationRefs(section, K) returns at most K records and keeps the
\* earliest K in document order, whichever of the three strategies applies;
\* the K that extract-citations uses is max_citations when that lies in 1..50
\* and 20 otherwise, so that no more than 50 citations are listed.
C12_CapKeepsEarliest ==
  /\ ParseCalled =>
       LET all == Uncapped
       IN /\ Len(fnOut) <= fnIn.maxCitations
          /\ Len(fnOut) = MinOf({fnIn.maxCitations, Len(all)})
          /\ fnOut = SubSeq(all, 1, Len(fnOut))
  /\ fnIn.fn = "maxCitations" =>
       /\ fnOut.maxCitations =
            IF fnIn.mc.given /\ fnIn.mc.value \in 1..50 THEN fnIn.mc.value ELSE 20
       /\ fnOut.maxCitations \in 1..50

\* a section of three entries, the first two marked [1] and [2], parsed
\* under the cap 2 gives the records of [1] and [2]
C12_Witness ==
  /\ ParseCalled
  /\ fnIn.maxCitations = 2
  /\ Len(Uncapped) = 3
  /\ Len(fnOut) = 2
  /\ fnOut[1].Index = 1
  /\ fnOut[2].Index = 2

\* the lines of the section that start with a [N] marker
BracketAt(lines) == {i \in 1..Len(lines) : lines[i].bracket > 0}

\* the n-th element of a set of numbers
NthOf(S, n) == CHOOSE x \in S : Cardinality({y \in S : y < x}) = n - 1

\* the lines of the n-th entry: from its marker's line to the line before the
\* next marker's, or to the last line
EntryLines(lines, n) ==
  SubSeq(lines, NthOf(BracketAt(lines), n),
         IF n < Cardinality(BracketAt(lines))
           THEN NthOf(BracketAt(lines), n + 1) - 1
           ELSE Len(lines))

\* the section has N >= 2 entries marked [1]..[N] in this order, and the cap
\* is N or more
BracketNumbered ==
  /\ ParseCalled
  /\ Cardinality(BracketAt(fnIn.lines)) >= 2
  /\ \A n \in 1..Cardinality(BracketAt(fnIn.lines)) :
       fnIn.lines[NthOf(BracketAt(fnIn.lines), n)].bracket = n
  /\ fnIn.maxCitations >= Cardinality(BracketAt(fnIn.lines))

\* C13: on a section with N >= 2 entries marked [1]..[N] at line starts and a
\* cap of N or more, parseCitationRefs returns N records with the indices
\* 1..N in document order, the raw text of each being the text from its
\* marker to the start of the next marker (to the end of the section for the
\* last), without the white space around it.
C13_BracketEntries ==
  BracketNumbered =>
    /\ Len(fnOut) = Cardinality(BracketAt(fnIn.lines))
    /\ \A n \in 1..Len(fnOut) :
         /\ fnOut[n].Index = n
         /\ fnOut[n].RawText = TrimSpace(SectionOf(EntryLines(fnIn.lines, n)))

\* a section of three lines, the entry [1] of two lines and the entry [2],
\* whose marker follows a space at the start of its line
C13_Witness ==
  /\ BracketNumbered
  /\ Len(fnIn.lines) = 3
  /\ BracketAt(fnIn.lines) = {1, 3}
  /\ Len(fnOut) = 2
  /\ fnOut[1].RawText = fnIn.lines[1].text \o <<"\n">> \o fnIn.lines[2].text
  /\ fnIn.lines[3].text[1] = " "
  /\ fnOut[2].RawText = Tail(fnIn.lines[3].text)

\* the lines of the section that start with a N. marker
DotAt(lines) == {i \in 1..Len(lines) : lines[i].dot > 0}

\* the DOIs of the lines, in document order
DOIsOf(lines) == Concat([i \in 1..Len(lines) |-> lines[i].dois])

\* the places of a sequence that hold the first occurrence of their element
FirstsAt(s) == {p \in 1..Len(s) : \A q \in 1..(p - 1) : s[q] # s[p]}

\* the distinct elements of a sequence, in the order of their first occurrence
Distinct(s) == [n \in 1..Cardinality(FirstsAt(s)) |-> s[NthOf(FirstsAt(s), n)]]

\* neither numbering style has two markers in the section
Unnumbered ==
  /\ ParseCalled
  /\ Cardinality(BracketAt(fnIn.lines)) < 2
  /\ Cardinality(DotAt(fnIn.lines)) < 2

\* C14: when neither numbering style yields two markers, parseCitationRefs
\* returns one record per distinct DOI of the section, in the order of first
\* occurrence (as many as the cap allows), each with Index 0 and the DOI as
\* its raw text, and no DOI in two records.
C14_DistinctDOIs ==
  Unnumbered =>
    /\ Len(fnOut) = MinOf({fnIn.maxCitations, Len(Distinct(DOIsOf(fnIn.lines)))})
    /\ \A n \in 1..Len(fnOut) :
         /\ fnOut[n].DOI = Distinct(DOIsOf(fnIn.lines))[n]
         /\ fnOut[n].RawText = fnOut[n].DOI
         /\ fnOut[n].Index = 0
    /\ \A m, n \in 1..Len(fnOut) : fnOut[m].DOI = fnOut[n].DOI => m = n

\* a section that names a DOI twice and another one once gives two records
C14_Witness ==
  /\ Unnumbered
  /\ Len(DOIsOf(fnIn.lines)) = 3
  /\ Len(Distinct(DOIsOf(fnIn.lines))) = 2
  /\ Len(fnOut) = 2
  /\ fnOut[1].DOI # fnOut[2].DOI

DOICalled == fnIn.fn = "extractDOIFromText"

\* the characters that extractDOIFromText takes for punctuation after a DOI
\* and that a DOI can end in
TrailingPunctuation == {".", ";"}

\* s without the punctuation it ends in
WithoutTrailing(s) ==
  IF \A i \in 1..Len(s) : s[i] \in TrailingPunctuation THEN <<>>
  ELSE SubSeq(s, 1, CHOOSE i \in 1..Len(s) :
                      /\ s[i] \notin TrailingPunctuation
                      /\ \A j \in (i + 1)..Len(s) : s[j] \in TrailingPunctuation)

\* C15 as stated: for every D that matches the DOI pattern,
\* extractDOIFromText("doi:" + D) is exactly D.
C15_Original == DOICalled => fnOut = fnIn.doi

\* C15: for every D that matches the DOI pattern, extractDOIFromText of
\* "doi:" + D is D without the '.' and ';' it ends in: exactly D when D ends
\* in neither, and never a text that ends in one of them.
C15_RoundTripUpToTrailing ==
  DOICalled =>
    /\ fnOut = WithoutTrailing(fnIn.doi)
    /\ fnIn.doi[Len(fnIn.doi)] \notin TrailingPunctuation => fnOut = fnIn.doi
    /\ fnOut # <<>> /\ fnOut[Len(fnOut)] \notin TrailingPunctuation

\* a DOI that ends in a full stop comes back without it, and a DOI with a
\* full stop inside comes back whole
C15_Witness ==
  /\ DOICalled
  /\ fnIn.doi = <<"1","0",".","1","2","3","4","/","a",".","7">>
  /\ fnOut = fnIn.doi

SectionCalled == fnIn.fn = "extractCitationSection"

\* the lines of the document that stand as a header: a header text after a
\* line break (the first line of a document follows none)
HeaderAt(lines) == {i \in 2..Len(lines) : lines[i].header > 0}

\* the header line that is recognized first: of the first header of the list
\* that the document has, in the first of the forms LF, CRLF, colon, and
\* among those the first of the document
FirstHeader(lines) ==
  CHOOSE i \in HeaderAt(lines) :
    \A j \in HeaderAt(lines) :
      \/ lines[i].header < lines[j].header
      \/ lines[i].header = lines[j].header /\ lines[i].form < lines[j].form
      \/ lines[i].header = lines[j].header /\ lines[i].form = lines[j].form /\ i <= j

\* C16 as stated: extractCitationSection returns the text that starts just
\* after the first recognized header line, or the empty string without one.
C16_Original ==
  SectionCalled =>
    IF HeaderAt(fnIn.lines) = {}
      THEN fnOut = <<>>
      ELSE fnOut = SectionOf(SubSeq(fnIn.lines, FirstHeader(fnIn.lines) + 1,
                                    Len(fnIn.lines)))

\* C16: extractCitationSection returns the text that starts at the first
\* recognized header line, the header line included (just after the line
\* break that precedes the header), or the empty string without one.
C16_SectionStartsAtHeader ==
  SectionCalled =>
    IF HeaderAt(fnIn.lines) = {}
      THEN fnOut = <<>>
      ELSE fnOut = SectionOf(SubSeq(fnIn.lines, FirstHeader(fnIn.lines),
                                    Len(fnIn.lines)))

\* a document with the header REFERENCES before the header References: the
\* section returned starts at the line References
C16_Witness ==
  /\ SectionCalled
  /\ Len(fnIn.lines) = 3
  /\ fnIn.lines[2].header = 2
  /\ fnIn.lines[3].header = 1
  /\ fnOut = fnIn.lines[3].text \o <<"\n">>

(***************************************************************************)
(* Properties of the enrichment of citations                               *)
(***************************************************************************)
\* extract-citations parsed records; the loop handled the first
\* run.processed of them
Extracted == Returned("extract_citations") /\ Len(run.parsed) > 0

\* the requests of the records the loop handled that satisfy keep, in order
RequestsOf(keep(_)) ==
  Concat([i \in 1..run.processed |-> IF keep(i) THEN run.steps[i].net ELSE <<>>])

\* C17: enrichment leaves every record with an empty DOI as it was parsed: no
\* lookup and no download is made for it, none of its fields changes, and it
\* stays in the output at its position.
C17_NoDOILeftAsParsed ==
  Extracted =>
    /\ Len(run.refs) = Len(run.parsed)
    /\ \A i \in 1..Len(run.parsed) :
         run.parsed[i].DOI = <<>> =>
           /\ run.refs[i] = run.parsed[i]
           /\ run.answers[i] = NoCiteAnswer
           /\ i <= run.processed =>
                /\ run.steps[i].net = <<>>
                /\ run.steps[i].fetched = <<>>
                /\ run.steps[i].writes = <<>>
    /\ LET hasDOI(i) == run.parsed[i].DOI # <<>>
       IN netLog = RequestsOf(hasDOI)

\* a run that enriches the first record from Crossref and Unpaywall and
\* leaves the second, which has no DOI, as parsed
C17_Witness ==
  /\ Extracted
  /\ call.download_available
  /\ run.processed = 2
  /\ run.parsed[1].DOI # <<>>
  /\ run.refs[1].Title # <<>>
  /\ run.refs[1].IsOA
  /\ run.parsed[2].DOI = <<>>
  /\ run.refs[2] = run.parsed[2]
  /\ run.refs[2].RawText # <<>>

\* the answers that make a lookup fail: no answer, a status other than 200,
\* a body that does not decode
Failed(ans) == ans.kind # "http" \/ ans.status # 200 \/ ~ans.parses

\* the bibliographic fields of the i-th record are those parsed
BiblioUntouched(i) ==
  /\ run.refs[i].Title = run.parsed[i].Title
  /\ run.refs[i].Authors = run.parsed[i].Authors
  /\ run.refs[i].Year = run.parsed[i].Year

\* the loop handled the i-th record, which has a DOI
Enrichable(i) == i <= run.processed /\ run.parsed[i].DOI # <<>>

CrossrefRequest(i) == [api |-> "crossref", url |-> run.parsed[i].DOI]
UnpaywallRequest(i) == [api |-> "unpaywall", url |-> run.parsed[i].DOI]

\* C18 as stated: for each record with a DOI, both the bibliographic and the
\* open-access lookup are attempted (in a run that is not cancelled).
C18_Original ==
  (Extracted /\ run.processed = Len(run.parsed)) =>
    \A i \in 1..Len(run.parsed) :
      run.parsed[i].DOI # <<>> =>
        /\ \E k \in 1..Len(run.steps[i].net) : run.steps[i].net[k] = CrossrefRequest(i)
        /\ \E k \in 1..Len(run.steps[i].net) : run.steps[i].net[k] = UnpaywallRequest(i)

\* C18: for each record with a DOI that the loop handles, the bibliographic
\* lookup is attempted, and the open-access lookup as well when a contact
\* email is configured (without one it is not made); a lookup that fails
\* changes nothing in the record and is no error of the operation, and the
\* records after it are looked up and filled all the same.
C18_BestEffortEnrichment ==
  Extracted =>
    /\ \A i \in 1..Len(run.parsed) :
         Enrichable(i) =>
           /\ run.steps[i].net[1] = CrossrefRequest(i)
           /\ IF emailForPolite # <<>>
                THEN run.steps[i].net[2] = UnpaywallRequest(i)
                ELSE \A k \in 1..Len(run.steps[i].net) : run.steps[i].net[k].api # "unpaywall"
           /\ IF Failed(run.answers[i].cr)
                THEN BiblioUntouched(i)
                ELSE run.refs[i].Title = IF Len(run.answers[i].cr.title) > 0
                                           THEN run.answers[i].cr.title[1]
                                           ELSE run.parsed[i].Title
           /\ IF emailForPolite = <<>> \/ Failed(run.answers[i].oa)
                THEN ~run.refs[i].IsOA /\ run.refs[i].PDFURL = <<>>
                ELSE run.refs[i].IsOA = (AnswerURL(run.answers[i].oa) # <<>>)
    /\ LET all(i) == TRUE IN netLog = RequestsOf(all)
    /\ result.isError => result.msg = MsgReportFailed

\* both lookups of the first record fail, and the second record is filled
\* from Crossref and marked open access
C18_Witness ==
  /\ Extracted
  /\ run.processed = 2
  /\ Enrichable(1)
  /\ Enrichable(2)
  /\ run.answers[1].cr.kind = "neterr"
  /\ run.answers[1].oa.kind = "neterr"
  /\ BiblioUntouched(1)
  /\ ~run.refs[1].IsOA
  /\ run.refs[2].Title = <<"T">>
  /\ run.refs[2].IsOA
  /\ ~result.isError

\* the Unpaywall answer is a good one, says open access, and carries a PDF
\* URL or a landing URL
OpenAccessWithURL(oa) ==
  /\ oa.kind = "http"
  /\ oa.status = 200
  /\ oa.parses
  /\ oa.isOA
  /\ (oa.urlPDF # <<>> \/ oa.url # <<>>)

\* C19: a record has IsOA = true only if its open-access lookup succeeded
\* with an answer that says open access and carries a PDF or landing URL;
\* then its PDFURL is that URL, and is not empty; a record whose lookup
\* failed, was not made, or said not open access has IsOA = false and an
\* empty PDFURL.
C19_OpenAccessOnlyWithURL ==
  Extracted =>
    \A i \in 1..Len(run.refs) :
      IF Enrichable(i) /\ emailForPolite # <<>> /\ OpenAccessWithURL(run.answers[i].oa)
        THEN /\ run.refs[i].IsOA
             /\ run.refs[i].PDFURL # <<>>
             /\ run.refs[i].PDFURL =
                  IF run.answers[i].oa.urlPDF # <<>> THEN run.answers[i].oa.urlPDF
                                                     ELSE run.answers[i].oa.url
        ELSE ~run.refs[i].IsOA /\ run.refs[i].PDFURL = <<>>

\* one record is marked open access with the landing URL of the answer, and
\* another, whose answer says open access without any URL, is not
C19_Witness ==
  /\ Extracted
  /\ run.processed = 2
  /\ run.answers[1].oa.isOA
  /\ run.answers[1].oa.urlPDF = <<>>
  /\ run.refs[1].IsOA
  /\ run.refs[1].PDFURL = run.answers[1].oa.url
  /\ run.answers[2].oa.isOA
  /\ run.answers[2].oa.url = <<>>
  /\ ~run.refs[2].IsOA
  /\ run.refs[2].PDFURL = <<>>

\* the three signals of a PDF in the answer to the download of record i:
\* the content type, the suffix of the URL asked for, the first bytes
ThreeSignals(i) ==
  \/ run.answers[i].dl.ct = <<"a","p","p","l","i","c","a","t","i","o","n","/","p","d","f">>
  \/ HasSuffix(run.refs[i].PDFURL, <<".","p","d","f">>)
  \/ HasPrefix(run.answers[i].dl.body, <<"%","P","D","F">>)

\* the writes of the log that go into save_dir and succeed
WrittenIntoSaveDir ==
  {k \in 1..Len(fsLog) :
     /\ fsLog[k].op = "write"
     /\ fsLog[k].ok
     /\ HasPrefix(fsLog[k].path, call.save_dir \o <<"/">>)}

\* the last record of the run whose paper was written to the path
LastWriterOf(path) ==
  CHOOSE j \in 1..run.processed :
    /\ run.steps[j].writes # <<>>
    /\ run.steps[j].writes[1].path = path
    /\ run.answers[j].wok
    /\ \A k \in (j + 1)..run.processed :
         ~(/\ run.steps[k].writes # <<>>
           /\ run.steps[k].writes[1].path = path
           /\ run.answers[k].wok)

\* C20: with download_available set, a cited paper is written, into
\* save_dir, only for a record with IsOA = true and a non-empty PDFURL whose
\* fetched content passes the three-signal PDF check; a failed fetch, a
\* non-PDF answer or a failed write is no error of the operation and adds
\* nothing to the downloaded count, which is the number of successful
\* writes of papers; without download_available nothing is fetched or written.
C20_DownloadsOnlyCheckedPDFs ==
  Extracted =>
    /\ \A i \in 1..run.processed :
         /\ (run.steps[i].writes # <<>>) =
              (/\ call.download_available
               /\ run.refs[i].IsOA
               /\ run.refs[i].PDFURL # <<>>
               /\ run.answers[i].dl.kind = "http"
               /\ ThreeSignals(i))
         /\ run.steps[i].writes # <<>> =>
              /\ Len(run.steps[i].writes) = 1
              /\ HasPrefix(run.steps[i].writes[1].path, call.save_dir \o <<"/">>)
              /\ HasSuffix(run.steps[i].writes[1].path, <<".","p","d","f">>)
              /\ run.steps[i].writes[1].data = run.answers[i].dl.body
              /\ run.steps[i].writes[1].ok = run.answers[i].wok
              /\ run.answers[i].wok =>
                   /\ run.steps[i].writes[1].path \in DOMAIN files
                   /\ files[run.steps[i].writes[1].path] =
                        run.answers[LastWriterOf(run.steps[i].writes[1].path)].dl.body
         /\ run.steps[i].downloaded =
              (run.steps[i].writes # <<>> /\ run.answers[i].wok)
    /\ run.downloadedCount =
         Cardinality({i \in 1..run.processed :
                        run.steps[i].writes # <<>> /\ run.answers[i].wok})
    /\ call.download_available =>
         run.downloadedCount = Cardinality(WrittenIntoSaveDir)
    /\ ~call.download_available =>
         /\ run.downloadedCount = 0
         /\ fetched = <<>>
         /\ \A k \in 1..Len(fsLog) :
              fsLog[k].op = "write" => fsLog[k].path = call.save_report_to
    /\ call.save_report_to = <<>> => ~result.isError

\* the answer to the download of the first record is a login page from a
\* landing URL and nothing is written for it, the paper of the second record
\* is written, and the count is one
C20_Witness ==
  /\ Extracted
  /\ call.download_available
  /\ run.processed = 2
  /\ run.refs[1].IsOA
  /\ run.answers[1].dl.kind = "http"
  /\ ~ThreeSignals(1)
  /\ run.steps[1].writes = <<>>
  /\ run.steps[2].writes # <<>>
  /\ run.answers[2].wok
  /\ run.downloadedCount = 1
  /\ ~result.isError

----------------------------------------------------------------------------
(* Properties of the loop and of the report of extract-citations           *)
----------------------------------------------------------------------------

\* the loop found the context cancelled before its last record
Cancelled == Extracted /\ run.processed < Len(run.parsed)

\* the requests and the writes of the records the loop handled
HandledRequests == Concat([i \in 1..run.processed |-> run.steps[i].net])
HandledWrites == Concat([i \in 1..run.processed |-> run.steps[i].writes])

\* the writes of papers in the log: all writes but that of the report
PaperWritesLogged ==
  Len(SelectSeq(fsLog, LAMBDA e : e.op = "write"))
    - (IF call.save_report_to # <<>> THEN 1 ELSE 0)

\* C21: when the loop finds the context cancelled, the records it has not
\* reached are neither looked up nor downloaded (no request, no write, the
\* record as parsed), and the operation still returns the report of all
\* records as a success: the cancellation is never an error.
C21_CancellationStopsTheLoop ==
  Cancelled =>
    /\ \A i \in (run.processed + 1)..Len(run.parsed) : run.refs[i] = run.parsed[i]
    /\ netLog = HandledRequests
    /\ Len(fetched) <= run.processed
    /\ PaperWritesLogged = Len(HandledWrites)
    /\ Len(run.refs) = Len(run.parsed)
    /\ result.isError => (call.save_report_to # <<>> /\ result.msg = MsgReportFailed)
    /\ ~result.isError => result.forUser = run.report

\* the loop handles the first of two records with DOI, fills it and marks it
\* open access, and stops: the second is as parsed, and the result is the
\* report
C21_Witness ==
  /\ Cancelled
  /\ run.processed = 1
  /\ Len(run.parsed) = 2
  /\ run.parsed[2].DOI # <<>>
  /\ run.refs[1].IsOA
  /\ run.refs[1].Title = <<"T">>
  /\ run.refs[2] = run.parsed[2]
  /\ Len(netLog) = 2
  /\ ~result.isError

\* the line that opens the entry of the i-th record in the report
EntryMark(i) == <<"-","-","-"," ","C","i","t","a","t","i","o","n"," ">> \o Itoa(i) \o <<" ","-","-","-","\n">>

\* the text of the report from position p, n characters long
ReportAt(p, n) == SubSeq(run.report, p, p + n - 1)

\* the first lines of the report: the file and the number of records
ReportHead == <<"C","i","t","a","t","i","o","n"," ","a","n","a","l","y","s","i","s"," ","o","f"," ">> \o call.file_path \o <<"\n","F","o","u","n","d"," ">> \o Itoa(Len(run.parsed)) \o <<" ","c","i","t","a","t","i","o","n","s">>

\* the counts of the header, when they are shown
CountsShown ==
  (IF emailForPolite # <<>> THEN <<","," ">> \o Itoa(run.oaCount) \o <<" ","o","p","e","n"," ","a","c","c","e","s","s">> ELSE <<>>)
  \o (IF call.download_available THEN <<","," ">> \o Itoa(run.downloadedCount) \o <<" ","d","o","w","n","l","o","a","d","e","d">> ELSE <<>>)

\* C22: the report lists every parsed record exactly once and in the order
\* in which parseCitationRefs returned them, whatever enrichment and
\* download did: the i-th entry is the formatted i-th record, which still
\* has the index and the raw text it was parsed with; the header gives the
\* number of records listed, and the counts satisfy
\* downloaded <= open-access <= total, open-access being the number of
\* records listed with IsOA = true.
C22_ReportListsRecordsInOrder ==
  Extracted =>
    LET at == [i \in 1..(Len(run.parsed) + 1) |-> Index(run.report, EntryMark(i))]
    IN /\ Len(run.refs) = Len(run.parsed)
       /\ \A i \in 1..Len(run.parsed) :
            LET entry == CitationFormat(run.refs[i])
            IN /\ run.refs[i].Index = run.parsed[i].Index
               /\ run.refs[i].RawText = run.parsed[i].RawText
               /\ at[i] > 0
               /\ at[i] = LastIndex(run.report, EntryMark(i))
               /\ ReportAt(at[i] + Len(EntryMark(i)), Len(entry)) = entry
               /\ i > 1 => at[i - 1] < at[i]
       /\ at[Len(run.parsed) + 1] = 0
       /\ HasPrefix(run.report, ReportHead \o CountsShown \o <<"\n","\n">> \o EntryMark(1))
       /\ run.oaCount = Cardinality({i \in 1..Len(run.refs) : run.refs[i].IsOA})
       /\ run.downloadedCount <= run.oaCount
       /\ run.oaCount <= Len(run.refs)
       /\ ~result.isError => result.forUser = run.report

\* two records, the first left as parsed and the second filled, marked open
\* access and downloaded: both are listed, in their order, and the counts
\* are 1 downloaded, 1 open access, 2 records
C22_Witness ==
  /\ Extracted
  /\ Len(run.parsed) = 2
  /\ run.processed = 2
  /\ ~run.refs[1].IsOA
  /\ run.refs[2].IsOA
  /\ run.refs[2].Title = <<"T">>
  /\ run.downloadedCount = 1
  /\ run.oaCount = 1
  /\ Index(run.report, EntryMark(1)) < Index(run.report, EntryMark(2))
  /\ ~result.isError

----------------------------------------------------------------------------
(* Properties of academic_search                                           *)
----------------------------------------------------------------------------

\* a search was run: the query was given
Searched == Returned("academic_search") /\ call.query # <<>>

\* the functions of buildSearchFuncs the call asks for, in their order
RequestedFns ==
  SelectSeq([i \in 1..Len(SearchSources) |-> i],
            LAMBDA i : \/ ~call.sources.given
                       \/ \E k \in 1..Len(call.sources.value) :
                            /\ call.sources.value[k].isString
                            /\ call.sources.value[k].s = SearchSources[i])

\* the i-th function fails: it has no key to ask with, or its source errs
SourceFailed(i) ==
  \/ SearchSources[i] \in KeyedSources /\ SearchSources[i] \notin call.opts.keys
  \/ run.answers[i].err # <<>>

\* C23: a search whose results are not to be saved returns an error only if
\* every requested source failed; when at least one requested source
\* answers without error, even with no paper, the result is a success whose
\* text names every source that failed; and every requested source is asked,
\* whatever the sources before it answered.
C23_SearchFailsOnlyIfAllSourcesFail ==
  (Searched /\ call.save_to = <<>>) =>
    /\ run.asked = RequestedFns
    /\ result.isError =>
         /\ Len(RequestedFns) > 0
         /\ \A k \in 1..Len(RequestedFns) : SourceFailed(RequestedFns[k])
    /\ (\E k \in 1..Len(RequestedFns) : ~SourceFailed(RequestedFns[k])) =>
         /\ ~result.isError
         /\ \A k \in 1..Len(RequestedFns) :
              SourceFailed(RequestedFns[k]) =>
                Contains(result.forLLM, SearchSources[RequestedFns[k]] \o <<":", " ">>)

\* C24: the limit handed to every source is between 1 and 20: the
\* max_results argument when it is in 1..20, and otherwise (missing, or
\* outside 1..20) the default, 5 unless the tool is configured with one.
C24_LimitBetween1And20 ==
  Searched =>
    /\ run.maxResults =
         IF call.max_results.given /\ call.max_results.value \in 1..20
           THEN call.max_results.value
           ELSE IF call.opts.MaxResultsPerSource > 0
                  THEN call.opts.MaxResultsPerSource
                  ELSE 5
    /\ \A k \in 1..Len(netLog) : netLog[k].limit = run.maxResults
    /\ run.maxResults \in 1..20

----------------------------------------------------------------------------
(* Properties of fetchURLWithRedirects                                     *)
----------------------------------------------------------------------------

\* the first fetch of fetch-paper was answered, after its redirects, by a
\* 200 response
FetchAnswered200 ==
  /\ Returned("fetch_paper")
  /\ run.r1.kind = "http"
  /\ run.r1.status = 200

\* C25: fetchURLWithRedirects follows up to 5 redirects: when the chain has
\* at most 5 redirects and ends in a 200 response, it returns the body and
\* the content type of that response and the URL of the last redirect; when
\* the chain has more than 5 redirects it returns an error.
C25_FollowsUpTo5Redirects ==
  FetchAnswered200 =>
    IF Len(run.r1.hops) <= 5
      THEN /\ ~run.f1.err
           /\ run.f1.body = run.r1.body
           /\ run.f1.contentType = run.r1.ct
           /\ Len(run.r1.hops) > 0 => run.f1.finalURL = run.r1.hops[Len(run.r1.hops)]
      ELSE run.f1.err

----------------------------------------------------------------------------
(* Properties of the paths of the downloaded papers                        *)
----------------------------------------------------------------------------

\* the records for which a paper is written
WrittenFor == {i \in 1..run.processed : run.steps[i].writes # <<>>}

\* the name of the file of a DOI: slashes, colons and spaces replaced
DOIFileName(doi) ==
  [k \in 1..Len(doi) |-> IF doi[k] \in {"/", ":", " "} THEN "_" ELSE doi[k]]
  \o <<".","p","d","f">>

\* C26: within one run the papers of different records are written to
\* different paths, so that none overwrites another; the path of a record
\* with DOI is save_dir, a separator, and the DOI with its slashes, colons
\* and spaces replaced by underscores followed by ".pdf", a name without
\* separator: the file lies directly inside save_dir.
C26_DistinctDownloadPaths ==
  (Extracted /\ call.download_available) =>
    /\ \A i \in WrittenFor :
         /\ run.refs[i].DOI # <<>>
         /\ run.steps[i].writes[1].path
              = call.save_dir \o <<"/">> \o DOIFileName(run.refs[i].DOI)
         /\ Count(DOIFileName(run.refs[i].DOI), "/") = 0
    /\ \A i \in WrittenFor : \A j \in WrittenFor :
         i # j => run.steps[i].writes[1].path # run.steps[j].writes[1].path

----------------------------------------------------------------------------
(* Properties of the strategies of the citation parser                     *)
----------------------------------------------------------------------------

\* the text of the n-th entry when the entries start at the lines `at`:
\* from its line to the line before the next entry's, or to the last line
EntryFrom(lines, at, n) ==
  TrimSpace(SectionOf(SubSeq(lines, NthOf(at, n),
                             IF n < Cardinality(at) THEN NthOf(at, n + 1) - 1
                                                    ELSE Len(lines))))

\* the records are those of the entries that start at the lines `at`, as
\* many as the cap allows, with the numbers num of their markers
SplitAt(at, num(_)) ==
  /\ Len(fnOut) = MinOf({fnIn.maxCitations, Cardinality(at)})
  /\ \A n \in 1..Len(fnOut) :
       /\ fnOut[n].Index = num(fnIn.lines[NthOf(at, n)])
       /\ fnOut[n].RawText = EntryFrom(fnIn.lines, at, n)

\* the records are those of the distinct DOIs of the section
DOIScan ==
  /\ Len(fnOut) = MinOf({fnIn.maxCitations, Len(Distinct(DOIsOf(fnIn.lines)))})
  /\ \A n \in 1..Len(fnOut) :
       /\ fnOut[n].Index = 0
       /\ fnOut[n].RawText = Distinct(DOIsOf(fnIn.lines))[n]

\* C27: the records of parseCitationRefs come from one strategy, chosen by
\* a fixed cascade: the entries of the [N] markers when the section has two
\* or more of them at line starts; otherwise the entries of the "N. "
\* markers when it has two or more of them at line starts; otherwise the
\* bare DOIs of the whole section.
C27_StrategyCascade ==
  ParseCalled =>
    IF Cardinality(BracketAt(fnIn.lines)) >= 2
      THEN LET num(l) == l.bracket IN SplitAt(BracketAt(fnIn.lines), num)
    ELSE IF Cardinality(DotAt(fnIn.lines)) >= 2
      THEN LET num(l) == l.dot IN SplitAt(DotAt(fnIn.lines), num)
    ELSE DOIScan

\* a section with two "N. " markers followed by two [N] markers, and with
\* DOIs, is parsed by the [N] markers alone: two records, and the lines of
\* the "N. " markers in none
C27_Witness ==
  /\ ParseCalled
  /\ DotAt(fnIn.lines) = {1, 2}
  /\ BracketAt(fnIn.lines) = {3, 4}
  /\ Len(DOIsOf(fnIn.lines)) >= 2
  /\ fnIn.maxCitations = 2
  /\ Len(fnOut) = 2
  /\ fnOut[1].Index = fnIn.lines[3].bracket
  /\ fnOut[1].RawText = fnIn.lines[3].text
  /\ fnOut[2].Index = fnIn.lines[4].bracket

----------------------------------------------------------------------------
(* Properties of the choice of the section header                          *)
----------------------------------------------------------------------------

\* the place in the list of the earliest variant the document has as a
\* header line
BestVariant(lines) == MinOf({lines[i].header : i \in HeaderAt(lines)})

\* C28: the header is chosen by the order of the list of variants, not by
\* the position in the document: the section starts at a line of the first
\* variant of the list that the document has as a header line, even when a
\* line of another variant comes earlier; and a line counts as a header
\* only when a line break precedes it and a line break, a CRLF or a colon
\* follows the header: without such a line the result is empty.
C28_HeaderChosenByListOrder ==
  SectionCalled =>
    IF HeaderAt(fnIn.lines) = {}
      THEN fnOut = <<>>
      ELSE \E i \in HeaderAt(fnIn.lines) :
             /\ fnIn.lines[i].header = BestVariant(fnIn.lines)
             /\ \A j \in HeaderAt(fnIn.lines) : fnIn.lines[i].header <= fnIn.lines[j].header
             /\ HasPrefix(fnOut, SectionHeaders[fnIn.lines[i].header])
             /\ fnOut = SectionOf(SubSeq(fnIn.lines, i, Len(fnIn.lines)))

\* a document whose first line is References, which no line break precedes,
\* followed by a line Bibliography: and a line REFERENCES: the section
\* starts at REFERENCES, the earlier of the two in the list
C28_Witness ==
  /\ SectionCalled
  /\ Len(fnIn.lines) = 3
  /\ fnIn.lines[1].header = 1
  /\ fnIn.lines[2].header = 3
  /\ fnIn.lines[3].header = 2
  /\ fnOut = SectionHeaders[2] \o <<"\n">>

----------------------------------------------------------------------------
(* Properties of the PDF text extraction                                   *)
----------------------------------------------------------------------------

\* the document handed to extractTextFromPDF and the join of its texts
ExtractedText == fnIn # NoFn /\ fnIn.fn = "extractTextFromPDF"
JoinedTexts == Join(fnIn.doc.texts, <<" ">>)

\* C29: extractTextFromPDF returns the texts of the literals of the BT/ET
\* blocks joined by a space when the trimmed join has at least MinPDFTextLen
\* characters, and otherwise the scan of the whole input for printable
\* bytes, which is empty for the empty input and for an input without a
\* printable byte
C29_TextOrScan ==
  ExtractedText =>
    /\ Len(TrimSpace(JoinedTexts)) >= MinPDFTextLen => fnOut = JoinedTexts
    /\ Len(TrimSpace(JoinedTexts)) < MinPDFTextLen =>
         /\ fnOut = extractPrintableASCII(fnIn.doc.data)
         /\ fnOut = fnIn.doc.scan
    /\ fnIn.doc \in BinaryDocs => fnOut = <<>>

\* a join of MinPDFTextLen characters or more whose trimmed length is below
\* it: the scan is returned
C29_Witness ==
  /\ ExtractedText
  /\ Len(JoinedTexts) >= MinPDFTextLen
  /\ Len(TrimSpace(JoinedTexts)) < MinPDFTextLen
  /\ fnOut = fnIn.doc.scan
  /\ fnOut # JoinedTexts

\* the character an escape sequence "\c" of the six denotes
Denoted(c) ==
  IF c = "n" THEN "\n"
  ELSE IF c = "r" THEN "\r"
  ELSE IF c = "t" THEN "\t"
  ELSE c

RECURSIVE DecodeOnce(_)
\* the reference decoder: the literal read from left to right, each of the
\* six escape sequences decoded once, every other character kept
DecodeOnce(s) ==
  IF s = <<>> THEN <<>>
  ELSE IF s[1] = "\\" /\ Len(s) >= 2 /\ s[2] \in {"n", "r", "t", "\\", "(", ")"}
    THEN <<Denoted(s[2])>> \o DecodeOnce(SubSeq(s, 3, Len(s)))
  ELSE <<s[1]>> \o DecodeOnce(Tail(s))

\* C30: pdfUnescapeString decodes the escape sequences \n \r \t \\ \( \) of
\* a captured literal to the characters they denote: its result is that of
\* the decoder that reads the literal from left to right and decodes each
\* escape sequence once.
C30_UnescapeDecodesOnce ==
  fnIn.fn = "pdfUnescapeString" => fnOut = DecodeOnce(fnIn.s)

=============================================================================
